---- MODULE Spec2Model ----
(***************************************************************************)
(* Model of the dialogue coordinator of the support chat backend:          *)
(* ChatService (backend/src/services/chat_service.py) and the REST and     *)
(* WebSocket entry points that call it (backend/src/api/chat.py).          *)
(*                                                                         *)
(* Text is modelled as text: messages, answers and patterns are strings,   *)
(* and str.lower, str.split, the `in` test and re.search are computed on   *)
(* their characters.  A Python None is the string NONE.                    *)
(***************************************************************************)
EXTENDS Integers, Sequences, FiniteSets, TLC

(***************************************************************************)
(* Bounds of the model.                                                    *)
(***************************************************************************)
MaxTurns == 2

ConvIds == {"c1", "c2"}

NONE == "<None>"

(***************************************************************************)
(* Python string primitives.                                               *)
(***************************************************************************)
UpperAlpha == "ABCDEFGHIJKLMNOPQRSTUVWXYZ"

LowerAlpha == "abcdefghijklmnopqrstuvwxyz"

Whitespace == {" ", "\t", "\n"}

CharAt(s, i) == SubSeq(s, i, i)

isupper(c) == \E i \in 1..26 : CharAt(UpperAlpha, i) = c

lower_char(c) ==
    IF isupper(c)
    THEN CharAt(LowerAlpha, CHOOSE i \in 1..26 : CharAt(UpperAlpha, i) = c)
    ELSE c

RECURSIVE lower(_)
lower(s) ==
    IF s = "" THEN "" ELSE lower_char(CharAt(s, 1)) \o lower(SubSeq(s, 2, Len(s)))

\* Python `p in s` on strings
contains(s, p) ==
    \E i \in 1..(Len(s) - Len(p) + 1) : SubSeq(s, i, i + Len(p) - 1) = p

\* len(s.split()): the number of maximal runs of non-whitespace characters
split_count(s) ==
    Cardinality({i \in 1..Len(s) :
        /\ CharAt(s, i) \notin Whitespace
        /\ (i = 1 \/ CharAt(s, i - 1) \in Whitespace)})

upper_count(s) == Cardinality({i \in 1..Len(s) : isupper(CharAt(s, i))})

\* the function f as a table of its values
Table(f) == f @@ << >>

\* F of the value v: v is a local name of F, evaluated once
With(v, F(_)) == CHOOSE y \in {F(x) : x \in {v}} : TRUE

Max(a, b) == IF a >= b THEN a ELSE b

Min(a, b) == IF a <= b THEN a ELSE b

\* the strings a b, for a in A and b in B
Cat2(A, B) == {a \o " " \o b : a \in A, b \in B}

\* an optional prefix "(?:p )?"
Opt(p) == {"", p \o " "}

\* re.search(pattern, s), the pattern given as the finite set of strings it denotes
re_search(pattern, s) == \E p \in pattern : contains(s, p)

(***************************************************************************)
(* ChatService.__init__: the follow-up and frustration patterns, each      *)
(* regular expression written as the set of strings it matches.            *)
(***************************************************************************)
follow_up_patterns ==
    << Cat2(Cat2({"that"}, {"didn't", "doesn't", "doesn'"}), {"work"}),
       Cat2({"still", "it's still"}, {"not working"}),
       Cat2(Cat2({"that", "it"}, {"didn't", "doesn't"}), {"help"}),
       Cat2(Cat2({"try", "give me"}, {"something", "another"}), {"else", "different"}),
       Cat2(Cat2({"what else"}, {"can", "could"}), {"you", "we"}),
       Cat2(Cat2({"any", "got"}, {"other"}), {"ideas", "suggestions", "solutions"}),
       Cat2(Cat2(Cat2({"doesn't", "isn't", "isn'"}, {"solving", "fixing"}),
                 {"my", "the"}), {"problem", "issue"}),
       Cat2(Cat2({"I need"}, {"more", "different", "another"}), {"help"}),
       {a \o " help " \o b \o c \o "something else" :
            a \in {"can you", "could you"}, b \in Opt("me"), c \in Opt("with")} >>

frustration_indicators ==
    << {a \o b \o "frustrating" : a \in Opt("this is"), b \in Opt("really")},
       {a \o b \o " so " \o c : a \in Opt("why"), b \in {"is this", "this is"},
            c \in {"hard", "difficult", "complicated"}},
       Cat2(Cat2({"I", "we"}, {"already", "just"}), {"tried that"}),
       Cat2(Cat2({"that", "this"}, {"makes no", "doesn't make"}), {"sense"}),
       {a \o " " \o b \o " to " \o c \o " to " \o d \o e :
            a \in {"I", "we"}, b \in {"need", "want"}, c \in {"speak", "talk"},
            d \in Opt("a"), e \in {"human", "person", "someone"}},
       {a \o b \o " " \o c \o d : a \in Opt("this"), b \in {"chatbot", "bot", "system"},
            c \in Opt("is"), d \in {"useless", "not helping", "broken"}} >>

(***************************************************************************)
(* The inputs of the model: user messages, completions of the generative   *)
(* model and the messages of the errors it raises.                         *)
(***************************************************************************)
\* the messages given to the intent classifiers
IntentMsgs ==
    { "",
      "hello there",
      "my internet is down",
      "why is my bill so high",
      "my cable box is broken",
      "need help",
      "pay for wifi",
      "speak to someone about a pay fee" }

Msgs ==
    IntentMsgs \cup
    { "my internet is down",
      "that didn't work",
      "I need more help",
      "we already tried that",
      "THIS BOT IS USELESS!!",
      "that didn't work, this is frustrating, this bot is useless, we just tried that!!",
      "please tell me how i can set up my new modem today",
      "what are your hours",
      "this is frustrating",
      "this bot is useless",
      "that didn't work, this is really frustrating",
      "" }

\* the messages of the turns
TurnMsgs ==
    { "my internet is down",
      "that didn't work",
      "I need more help",
      "THIS BOT IS USELESS!!",
      "that didn't work, this is frustrating, this bot is useless, we just tried that!!",
      "please tell me how i can set up my new modem today",
      "what are your hours" }

LLMAnswers ==
    { "Try restarting your modem. Then check the cables. Call us",
      "I am sorry to hear that",
      "" }

LLMErrors ==
    { "Rate limit reached for requests",
      "Error code: 429",
      "Connection timed out" }

(***************************************************************************)
(* ConversationState and ConversationContext.                              *)
(***************************************************************************)
INITIAL == "initial"

PROBLEM_SOLVING == "problem_solving"

FOLLOW_UP == "follow_up"

ESCALATION == "escalation"

RESOLVED == "resolved"

ConversationState == {INITIAL, PROBLEM_SOLVING, FOLLOW_UP, ESCALATION, RESOLVED}

\* the context that get_or_create_context constructs (dataclass defaults)
ConversationContext(conversation_id, user_id) ==
    [ conversation_id |-> conversation_id,
      user_id |-> user_id,
      current_state |-> INITIAL,
      last_solution_offered |-> NONE,
      attempt_count |-> 0,
      frustration_level |-> 0,
      preferred_tone |-> "helpful",
      resolution_attempts |-> << >> ]

\* Python truthiness of an Optional[str]
truthy(s) == s # NONE /\ s # ""

\* any(re.search(p, s) for p in patterns)
any_pattern(patterns, s) ==
    \E k \in 1..Len(patterns) : re_search(patterns[k], s)

\* the number of patterns that match s
count_patterns(patterns, s) ==
    Cardinality({k \in 1..Len(patterns) : re_search(patterns[k], s)})

\* the first loop of detect_follow_up: some follow-up pattern is found in the
\* lowercased message
follow_up_pattern_found(message) == any_pattern(follow_up_patterns, lower(message))

\* the text computations are evaluated once for the messages of the model
follow_up_pattern_found_of == Table([m \in Msgs |-> follow_up_pattern_found(m)])

split_count_of == Table([m \in Msgs |-> split_count(m)])

detect_follow_up(message, context) ==
    \/ follow_up_pattern_found_of[message]
    \/ /\ context.current_state = PROBLEM_SOLVING
       /\ truthy(context.last_solution_offered)
       /\ split_count_of[message] < 10

\* re.search(r"[!?]{2,}", message)
multi_punct(message) ==
    \E i \in 1..(Len(message) - 1) :
        CharAt(message, i) \in {"!", "?"} /\ CharAt(message, i + 1) \in {"!", "?"}

\* caps_ratio > 0.3, with caps_ratio = upper_count / max(len, 1)
caps_ratio_high(message) == 10 * upper_count(message) > 3 * Max(Len(message), 1)

\* what the message itself adds to the frustration score: 2 per indicator
\* found, 1 for capitals, 1 for repeated punctuation
message_frustration(message) ==
    2 * count_patterns(frustration_indicators, lower(message))
      + (IF caps_ratio_high(message) THEN 1 ELSE 0)
      + (IF multi_punct(message) THEN 1 ELSE 0)

message_frustration_of == Table([m \in Msgs |-> message_frustration(m)])

\* detect_frustration_level without the final min(..., 10)
detect_frustration_level_unclamped(message, context) ==
    context.frustration_level
      + message_frustration_of[message]
      + (IF context.attempt_count > 2 THEN 1 ELSE 0)

\* detect_frustration_level with the score started at 0
detect_frustration_level_from_zero(message, context) ==
    Min( message_frustration_of[message]
           + (IF context.attempt_count > 2 THEN 1 ELSE 0),
         10 )

detect_frustration_level(message, context) ==
    Min( context.frustration_level
           + message_frustration_of[message]
           + (IF context.attempt_count > 2 THEN 1 ELSE 0),
         10 )

\* determine_tone with the attempt count tested before the frustration level
determine_tone_attempts_first(context) ==
    IF context.attempt_count >= 3 THEN "patient_alternative"
    ELSE IF context.frustration_level >= 7 THEN "empathetic_escalation"
    ELSE IF context.frustration_level >= 4 THEN "empathetic_supportive"
    ELSE IF context.current_state = FOLLOW_UP THEN "understanding_adaptive"
    ELSE "helpful_friendly"

determine_tone(context) ==
    IF context.frustration_level >= 7 THEN "empathetic_escalation"
    ELSE IF context.frustration_level >= 4 THEN "empathetic_supportive"
    ELSE IF context.attempt_count >= 3 THEN "patient_alternative"
    ELSE IF context.current_state = FOLLOW_UP THEN "understanding_adaptive"
    ELSE "helpful_friendly"

\* a conversation that has no context in conversation_contexts
NoContext == [absent |-> TRUE]

\* a service that keeps one context: creating a context drops the others
get_or_create_context_single(contexts, conversation_id, user_id) ==
    IF contexts[conversation_id] = NoContext
    THEN [c \in DOMAIN contexts |->
              IF c = conversation_id
              THEN ConversationContext(conversation_id, user_id)
              ELSE NoContext]
    ELSE contexts

get_or_create_context(conversation_contexts, conversation_id, user_id) ==
    IF conversation_contexts[conversation_id] = NoContext
    THEN [conversation_contexts EXCEPT
              ![conversation_id] = ConversationContext(conversation_id, user_id)]
    ELSE conversation_contexts

\* the follow-up branch without counting the attempt
track_follow_up_uncounted(context, message) ==
    With([context EXCEPT !.current_state = FOLLOW_UP], LAMBDA c1 :
    With([c1 EXCEPT !.frustration_level = detect_frustration_level(message, c1)],
         LAMBDA c2 :
    IF truthy(c2.last_solution_offered)
    THEN [c2 EXCEPT !.resolution_attempts =
              Append(@, [ solution |-> c2.last_solution_offered,
                          outcome |-> "ineffective",
                          user_feedback |-> message ])]
    ELSE c2))

\* update_context, the follow-up branch: state, attempt_count, frustration
\* level, and the solution offered before this turn recorded as ineffective
track_follow_up(context, message) ==
    With([context EXCEPT !.current_state = FOLLOW_UP, !.attempt_count = @ + 1],
         LAMBDA c1 :
    With([c1 EXCEPT !.frustration_level = detect_frustration_level(message, c1)],
         LAMBDA c2 :
    IF truthy(c2.last_solution_offered)
    THEN [c2 EXCEPT !.resolution_attempts =
              Append(@, [ solution |-> c2.last_solution_offered,
                          outcome |-> "ineffective",
                          user_feedback |-> message ])]
    ELSE c2))

\* update_context marking the conversation resolved when a follow-up turn
\* offers a solution
track_solution_resolving(context, is_follow_up, solution_offered) ==
    IF truthy(solution_offered)
    THEN [context EXCEPT !.last_solution_offered = solution_offered,
                         !.current_state =
                             IF is_follow_up THEN RESOLVED ELSE PROBLEM_SOLVING]
    ELSE context

\* update_context, "Update solution tracking"
track_solution(context, is_follow_up, solution_offered) ==
    IF truthy(solution_offered)
    THEN [context EXCEPT !.last_solution_offered = solution_offered,
                         !.current_state =
                             IF is_follow_up THEN @ ELSE PROBLEM_SOLVING]
    ELSE context

\* update_context recording the solution of this turn before the follow-up
\* branch runs
updated_context_records_current(context, message, solution_offered) ==
    With(detect_follow_up(message, context), LAMBDA is_follow_up :
    With(track_solution(context, is_follow_up, solution_offered), LAMBDA c1 :
    With(IF is_follow_up THEN track_follow_up(c1, message) ELSE c1, LAMBDA c2 :
    [c2 EXCEPT !.preferred_tone = determine_tone(c2)])))

\* update_context moving to PROBLEM_SOLVING on every turn that is no follow-up
updated_context_always_problem_solving(context, message, solution_offered) ==
    With(detect_follow_up(message, context), LAMBDA is_follow_up :
    With(IF is_follow_up THEN track_follow_up(context, message) ELSE context,
         LAMBDA c3 :
    With(track_solution(c3, is_follow_up, solution_offered), LAMBDA c4 :
    With(IF is_follow_up THEN c4 ELSE [c4 EXCEPT !.current_state = PROBLEM_SOLVING],
         LAMBDA c5 :
    [c5 EXCEPT !.preferred_tone = determine_tone(c5)]))))

\* update_context choosing the tone before the solution tracking
updated_context_tone_before_solution(context, message, solution_offered) ==
    With(detect_follow_up(message, context), LAMBDA is_follow_up :
    With(IF is_follow_up THEN track_follow_up(context, message) ELSE context,
         LAMBDA c3 :
    With([c3 EXCEPT !.preferred_tone = determine_tone(c3)], LAMBDA c4 :
    track_solution(c4, is_follow_up, solution_offered))))

\* the body of update_context, on the context found for the conversation
updated_context(context, message, solution_offered) ==
    With(detect_follow_up(message, context), LAMBDA is_follow_up :
    With(IF is_follow_up THEN track_follow_up(context, message) ELSE context,
         LAMBDA c3 :
    With(track_solution(c3, is_follow_up, solution_offered), LAMBDA c4 :
    [c4 EXCEPT !.preferred_tone = determine_tone(c4)])))

\* update_context working on a newly constructed context
update_context_on_new(conversation_contexts, conversation_id, message, solution_offered) ==
    IF conversation_contexts[conversation_id] = NoContext
    THEN conversation_contexts
    ELSE [conversation_contexts EXCEPT
              ![conversation_id] =
                  updated_context(ConversationContext(conversation_id, conversation_id),
                                  message, solution_offered)]

update_context(conversation_contexts, conversation_id, message, solution_offered) ==
    IF conversation_contexts[conversation_id] = NoContext
    THEN conversation_contexts
    ELSE [conversation_contexts EXCEPT
              ![conversation_id] = updated_context(@, message, solution_offered)]

(***************************************************************************)
(* The knowledge base (ChatService.kb): per agent, its categories in file  *)
(* order, each with its responses.  A response whose "type" key is absent  *)
(* has type NONE.                                                          *)
(***************************************************************************)
Agents == <<"tech_support", "billing", "general">>

CorpusKB ==
    [ tech_support |->
        << [ name |-> "internet_outage",
             responses |->
               << [ content |-> "Check the outage map. Then restart your modem",
                    keywords |-> <<"internet", "outage", "down">>,
                    type |-> "kb_exact" ] >> ],
           [ name |-> "equipment",
             responses |->
               << [ content |-> "Plug in the gateway",
                    keywords |-> <<"gateway">>,
                    type |-> "kb_exact" ],
                  [ content |-> "Go to the app to activate the modem",
                    keywords |-> <<"modem setup", "new modem">>,
                    type |-> "kb_exact" ] >> ] >>,
      billing |->
        << [ name |-> "billing_help",
             responses |->
               << [ content |-> "Your bill is in the app",
                    keywords |-> <<"bill", "payment">>,
                    type |-> "kb_exact" ] >> ] >>,
      general |->
        << [ name |-> "account_help",
             responses |->
               << [ content |-> "Update your account in settings",
                    keywords |-> <<"account">>,
                    type |-> "kb_exact" ] >> ],
           [ name |-> "store_hours",
             responses |->
               << [ content |-> "Stores are open 9 to 5",
                    keywords |-> <<"hours">>,
                    type |-> NONE ] >> ] >> ]

\* the knowledge base used when the file is not found
EmptyKB == [ tech_support |-> << >>, billing |-> << >>, general |-> << >> ]

\* what self.kb can hold after __init__, by the name the state uses for it
KnowledgeBases == [corpus |-> CorpusKB, empty |-> EmptyKB]

\* s.replace("_", " ")
RECURSIVE replace_underscore(_)
replace_underscore(s) ==
    IF s = "" THEN ""
    ELSE (IF CharAt(s, 1) = "_" THEN " " ELSE CharAt(s, 1))
             \o replace_underscore(SubSeq(s, 2, Len(s)))

NormChars == "abcdefghijklmnopqrstuvwxyz0123456789 "

\* re.sub(r"[^a-z0-9 ]", "", s)
RECURSIVE keep_norm_chars(_)
keep_norm_chars(s) ==
    IF s = "" THEN ""
    ELSE (IF contains(NormChars, CharAt(s, 1)) THEN CharAt(s, 1) ELSE "")
             \o keep_norm_chars(SubSeq(s, 2, Len(s)))

\* s.strip()
strip(s) ==
    LET idx == {i \in 1..Len(s) : CharAt(s, i) \notin Whitespace}
    IN  IF idx = {} THEN ""
        ELSE SubSeq(s, CHOOSE i \in idx : \A j \in idx : i <= j,
                       CHOOSE i \in idx : \A j \in idx : i >= j)

normalize(text) == strip(keep_norm_chars(replace_underscore(lower(text))))

\* the indices at which a whitespace-delimited token of s starts
token_starts(s) ==
    {i \in 1..Len(s) :
        /\ CharAt(s, i) \notin Whitespace
        /\ (i = 1 \/ CharAt(s, i - 1) \in Whitespace)}

\* the index at which the token starting at i ends
token_end(s, i) ==
    CHOOSE j \in i..Len(s) :
        /\ \A k \in i..j : CharAt(s, k) \notin Whitespace
        /\ (j = Len(s) \/ CharAt(s, j + 1) \in Whitespace)

\* set(s.split())
split_set(s) == {SubSeq(s, i, token_end(s, i)) : i \in token_starts(s)}

tokenize(text) == split_set(normalize(text))

\* a search result: no response (None), or the response found
NoResponse == [found |-> FALSE, content |-> "", type |-> ""]

Found(resp) == [found |-> TRUE, content |-> resp.content, type |-> resp.type]

\* the first pass of search_agent_kb: the category name matches the message
category_name_match(cat_name, message) ==
    \/ contains(normalize(message), normalize(cat_name))
    \/ contains(normalize(cat_name), normalize(message))
    \/ tokenize(cat_name) \cap tokenize(message) # {}

\* the score of a response: its keywords that share a token with the message
keyword_score(resp, message) ==
    Cardinality({k \in 1..Len(resp.keywords) :
        tokenize(resp.keywords[k]) \cap tokenize(message) # {}})

\* the second pass keeping the response seen last among equal scores
RECURSIVE score_responses_keeps_last(_, _, _, _)
score_responses_keeps_last(responses, r, message, best) ==
    IF r > Len(responses) THEN best
    ELSE score_responses_keeps_last(responses, r + 1, message,
            IF keyword_score(responses[r], message) >= best.score
            THEN [match |-> Found(responses[r]),
                  score |-> keyword_score(responses[r], message)]
            ELSE best)

\* the second pass over the responses of one category, from response r on;
\* best is [match, score]
RECURSIVE score_responses(_, _, _, _)
score_responses(responses, r, message, best) ==
    IF r > Len(responses) THEN best
    ELSE score_responses(responses, r + 1, message,
            IF keyword_score(responses[r], message) > best.score
            THEN [match |-> Found(responses[r]),
                  score |-> keyword_score(responses[r], message)]
            ELSE best)

\* the loop of search_agent_kb over the categories, from category i on
RECURSIVE search_categories(_, _, _, _)
search_categories(cats, i, message, best) ==
    IF i > Len(cats) THEN best.match
    ELSE IF /\ category_name_match(cats[i].name, message)
            /\ Len(cats[i].responses) > 0
         THEN Found(cats[i].responses[1])
         ELSE search_categories(cats, i + 1, message,
                  score_responses(cats[i].responses, 1, message, best))

search_agent_kb(agent_kb, message) ==
    search_categories(agent_kb, 1, message, [match |-> NoResponse, score |-> 0])

\* the searches are evaluated once for the knowledge bases and messages of the model
search_agent_kb_of ==
    Table([k \in DOMAIN KnowledgeBases |->
        Table([a \in {Agents[i] : i \in 1..Len(Agents)} |->
            Table([m \in Msgs |-> search_agent_kb(KnowledgeBases[k][a], m)])])])

\* sum(1 for keyword in keywords if keyword in message_lower)
keyword_hits(keywords, message_lower) ==
    Cardinality({k \in 1..Len(keywords) : contains(message_lower, keywords[k])})

tech_keywords ==
    << "internet", "wifi", "modem", "router", "connection", "slow", "outage",
       "not working", "down", "offline", "reset", "restart", "troubleshoot",
       "technical", "equipment", "cable", "signal", "speed" >>

billing_keywords ==
    << "bill", "billing", "payment", "charge", "cost", "price", "fee", "account",
       "subscription", "plan", "upgrade", "downgrade", "cancel", "refund",
       "credit", "balance", "due", "overdue", "autopay" >>

simple_agent_routing(message) ==
    LET tech_score == keyword_hits(tech_keywords, lower(message))
        billing_score == keyword_hits(billing_keywords, lower(message))
    IN  IF tech_score > billing_score THEN "tech_support"
        ELSE IF billing_score > 0 THEN "billing"
        ELSE "general"

simple_agent_routing_of == Table([m \in Msgs |-> simple_agent_routing(m)])

\* s.split("."), as a sequence
RECURSIVE split_dot(_)
split_dot(s) ==
    LET dots == {i \in 1..Len(s) : CharAt(s, i) = "."}
    IN  IF dots = {} THEN <<s>>
        ELSE LET d == CHOOSE i \in dots : \A j \in dots : i <= j
             IN  <<SubSeq(s, 1, d - 1)>> \o split_dot(SubSeq(s, d + 1, Len(s)))

action_words == {"try", "click", "go to", "check", "update", "restart"}

\* the sentences (stripped) that contain an action word
RECURSIVE action_sentences(_)
action_sentences(sentences) ==
    IF sentences = << >> THEN << >>
    ELSE (IF \E a \in action_words : contains(lower(Head(sentences)), a)
          THEN <<strip(Head(sentences))>> ELSE << >>)
             \o action_sentences(Tail(sentences))

\* ". ".join(action_sentences[:2]) if action_sentences else response[:100]
\* (text is the response)
join_first_two(acts, text) ==
    IF acts = << >> THEN SubSeq(text, 1, Min(Len(text), 100))
    ELSE IF Len(acts) = 1 THEN acts[1]
    ELSE acts[1] \o ". " \o acts[2]

extract_solution_summary(text) ==
    join_first_two(action_sentences(split_dot(text)), text)

(***************************************************************************)
(* What the collaborators do in one turn: whether constructing the         *)
(* conversation chain raises, what route_message returns or that it        *)
(* raises, and what the completion returns or the error it raises.         *)
(***************************************************************************)
RouteIntents == {"technical_support", "billing", "general"}

RouteOutcomes ==
    {[raises |-> FALSE, intent |-> i, confidence |-> 95] : i \in RouteIntents}
    \cup {[raises |-> TRUE, intent |-> "", confidence |-> 0]}

\* the completion of the turns
TurnAnswers == {"Try restarting your modem. Then check the cables. Call us"}

LLMOutcomes ==
    {[ok |-> TRUE, text |-> t] : t \in TurnAnswers}
    \cup {[ok |-> FALSE, text |-> t] : t \in LLMErrors}

Envs == [chain_raises : BOOLEAN, route : RouteOutcomes, llm : LLMOutcomes]

\* environments that differ only in an outcome the turn does not ask for give
\* the same turn: of these, the turn is taken in the one below
Unasked ==
    [ chain_raises |-> FALSE,
      route |-> [raises |-> FALSE, intent |-> "general", confidence |-> 95],
      llm |-> [ok |-> FALSE, text |-> "Connection timed out"] ]

asked_only(env, asked) ==
    /\ "chain" \notin asked => env.chain_raises = Unasked.chain_raises
    /\ "route" \notin asked => env.route = Unasked.route
    /\ "llm" \notin asked => env.llm = Unasked.llm

\* the message of the error raised when the chain cannot be constructed
ChainError == "validation error for ConversationChain"

(***************************************************************************)
(* Responses.  The confidence of intent_data is in hundredths; a           *)
(* solution_summary or conversation_metrics key that is absent is NONE,    *)
(* NoMetrics.                                                              *)
(***************************************************************************)
NoMetrics == [absent |-> TRUE]

RateLimitAnswer ==
    "I'm here to help with your Xfinity services. I can assist with internet issues, billing questions, equipment troubleshooting, and general support. What specific problem are you experiencing?"

ClarifyAnswer ==
    "I found some information that might help you. Could you be more specific about what you're looking for?"

ErrorAnswer ==
    "I'm here to help with your Xfinity services. You can ask me about internet issues, billing questions, or general support."

FrustratedFallbackText ==
    "I understand this has been frustrating. Let me try a different approach to help you. Could you tell me more specifically what happened when you tried the previous suggestion?"

FallbackText ==
    "I see that the previous solution didn't work as expected. Let me suggest a different approach. Can you tell me more details about what you're experiencing?"

\* the answers a handler can pass to extract_solution_summary
AnswerTexts ==
    LLMAnswers
    \cup {CorpusKB[a][i].responses[j].content :
              <<a, i, j>> \in {t \in {Agents[n] : n \in 1..Len(Agents)} \X (1..2) \X (1..2) :
                               /\ t[2] <= Len(CorpusKB[t[1]])
                               /\ t[3] <= Len(CorpusKB[t[1]][t[2]].responses)}}
    \cup {RateLimitAnswer, ClarifyAnswer, FrustratedFallbackText, FallbackText}

\* the summaries are evaluated once for the answers of the model
extract_solution_summary_of == Table([a \in AnswerTexts |-> extract_solution_summary(a)])

create_empathetic_fallback_text(context) ==
    IF context.frustration_level >= 6 THEN FrustratedFallbackText ELSE FallbackText

create_empathetic_fallback(context) ==
    [ answer |->
          IF context.frustration_level >= 6
          THEN "I understand this has been frustrating. Let me connect you with a human agent who can provide more personalized assistance."
          ELSE "I apologize that my previous suggestion didn't work as expected. Let me try a different approach to help resolve this issue.",
      agent_type |-> "supportive",
      answer_type |-> "empathetic_fallback",
      intent |-> "support",
      intent_data |-> [empathy_triggered |-> TRUE],
      solution_summary |-> NONE,
      conversation_flow |-> "empathetic_support",
      conversation_metrics |-> NoMetrics ]

\* get_or_create_conversation_with_tone: the conversations that have a chain
\* afterwards, and whether constructing a new chain raised
get_or_create_conversation_with_tone(conversations, conversation_id, chain_raises) ==
    IF conversation_id \in conversations
    THEN [raised |-> FALSE, conversations |-> conversations, asked |-> {}]
    ELSE IF chain_raises
    THEN [raised |-> TRUE, conversations |-> conversations, asked |-> {"chain"}]
    ELSE [ raised |-> FALSE, conversations |-> conversations \cup {conversation_id},
           asked |-> {"chain"} ]

\* self.tone_prompts: the tones that have a system prompt
tone_prompts ==
    { "helpful_friendly", "understanding_adaptive", "patient_alternative",
      "empathetic_supportive", "empathetic_escalation" }

\* get_or_create_conversation_with_tone, system_prompt: the tone whose prompt
\* is looked up for a new chain
system_prompt(tone) == IF tone \in tone_prompts THEN tone ELSE "helpful_friendly"

\* get_or_create_conversation_with_tone called with tone: the tone looked up
\* for the chain of each conversation; a chain that exists is returned as it is
chain_tone_after(tones, conversations, conversations_after, conversation_id, tone) ==
    IF conversation_id \notin conversations /\ conversation_id \in conversations_after
    THEN [tones EXCEPT ![conversation_id] = system_prompt(tone)]
    ELSE tones

\* the result of a handler that raises
Raised(conversations, steps, searched, primary, asked) ==
    [ raised |-> TRUE, response |-> NoMetrics, conversations |-> conversations,
      asked |-> asked,
      raised_steps |-> steps, searched |-> searched, primary |-> primary,
      llm_calls |-> 0, llm_ok |-> FALSE, llm_error |-> NONE ]

handle_follow_up(svc, conversation_id, message, context, env) ==
    With(get_or_create_conversation_with_tone(
             svc.conversations, conversation_id, env.chain_raises), LAMBDA chain :
    IF chain.raised
    THEN Raised(chain.conversations, {"follow_up"}, << >>, NONE, chain.asked)
    ELSE IF svc.llm_available /\ ~env.llm.ok
    THEN [ raised |-> FALSE,
           response |-> create_empathetic_fallback(context),
           conversations |-> chain.conversations,
           asked |-> chain.asked \cup {"llm"},
           raised_steps |-> {"completion"}, searched |-> << >>, primary |-> NONE,
           llm_calls |-> 1, llm_ok |-> FALSE, llm_error |-> env.llm.text ]
    ELSE With(IF svc.llm_available THEN env.llm.text
              ELSE create_empathetic_fallback_text(context), LAMBDA text :
         [ raised |-> FALSE,
           response |->
             [ answer |-> text,
               agent_type |-> "conversational",
               answer_type |-> "follow_up_response",
               intent |-> "follow_up_assistance",
               intent_data |->
                   [ is_follow_up |-> TRUE,
                     attempt_count |-> context.attempt_count,
                     frustration_level |-> context.frustration_level,
                     previous_solutions |-> Len(context.resolution_attempts) ],
               solution_summary |-> extract_solution_summary_of[text],
               conversation_flow |-> "follow_up_adaptive",
               conversation_metrics |-> NoMetrics ],
           conversations |-> chain.conversations,
           asked |-> chain.asked \cup (IF svc.llm_available THEN {"llm"} ELSE {}),
           raised_steps |-> {}, searched |-> << >>, primary |-> NONE,
           llm_calls |-> IF svc.llm_available THEN 1 ELSE 0,
           llm_ok |-> svc.llm_available, llm_error |-> NONE ]))

\* the mapping of the routed intent to the agent searched first
intent_to_agent(intent) ==
    IF intent = "technical_support" THEN "tech_support"
    ELSE IF intent = "billing" THEN "billing"
    ELSE "general"

\* the loop over the fallback agents, from Agents[i] on
RECURSIVE search_fallback_agents(_, _, _, _, _)
search_fallback_agents(kb_, i, message, agent, searched) ==
    IF i > Len(Agents)
    THEN [kb_response |-> NoResponse, agent |-> agent, searched |-> searched]
    ELSE IF Agents[i] = agent
    THEN search_fallback_agents(kb_, i + 1, message, agent, searched)
    ELSE With(search_agent_kb_of[kb_][Agents[i]][message], LAMBDA kb_response :
         IF kb_response.found
         THEN [ kb_response |-> kb_response,
                agent |-> Agents[i],
                searched |-> Append(searched, Agents[i]) ]
         ELSE search_fallback_agents(kb_, i + 1, message, agent,
                                     Append(searched, Agents[i])))

\* Step 2 without the test fallback_agent != agent
search_tiers_no_skip(kb_, agent, message) ==
    With(search_agent_kb_of[kb_][agent][message], LAMBDA kb_response :
    IF kb_response.found
    THEN [kb_response |-> kb_response, agent |-> agent, searched |-> <<agent>>]
    ELSE With(search_fallback_agents(kb_, 1, message, NONE, <<agent>>), LAMBDA found :
         [found EXCEPT !.agent = IF found.kb_response.found THEN @ ELSE agent]))

\* Step 2 of handle_regular_message: the primary agent, then the others
search_tiers(kb_, agent, message) ==
    With(search_agent_kb_of[kb_][agent][message], LAMBDA kb_response :
    IF kb_response.found
    THEN [kb_response |-> kb_response, agent |-> agent, searched |-> <<agent>>]
    ELSE search_fallback_agents(kb_, 1, message, agent, <<agent>>))

\* the test without .lower()
is_rate_limit_error_case_sensitive(e) == contains(e, "rate limit") \/ contains(e, "429")

\* "rate limit" in str(e).lower() or "429" in str(e)
is_rate_limit_error(e) == contains(lower(e), "rate limit") \/ contains(e, "429")

is_rate_limit_error_of == Table([e \in LLMErrors \cup {ChainError} |-> is_rate_limit_error(e)])

\* the except branch of Step 3
llm_error_answer(e) == IF is_rate_limit_error_of[e] THEN RateLimitAnswer ELSE ClarifyAnswer

\* Step 3 of handle_regular_message: the generative tier
llm_tier(svc, conversation_id, env) ==
    IF ~svc.llm_available
    THEN [ answer |-> RateLimitAnswer, answer_type |-> "kb_fallback",
           conversations |-> svc.conversations, asked |-> {},
           llm_calls |-> 0, llm_ok |-> FALSE, llm_error |-> NONE,
           raised_steps |-> {} ]
    ELSE With(get_or_create_conversation_with_tone(
                  svc.conversations, conversation_id, env.chain_raises), LAMBDA chain :
         IF chain.raised
         THEN [ answer |-> llm_error_answer(ChainError),
                answer_type |-> "kb_fallback",
                conversations |-> chain.conversations, asked |-> chain.asked,
                llm_calls |-> 0, llm_ok |-> FALSE, llm_error |-> ChainError,
                raised_steps |-> {"completion"} ]
         ELSE IF env.llm.ok
         THEN [ answer |-> env.llm.text, answer_type |-> "llm_generated",
                conversations |-> chain.conversations,
                asked |-> chain.asked \cup {"llm"},
                llm_calls |-> 1, llm_ok |-> TRUE, llm_error |-> NONE,
                raised_steps |-> {} ]
         ELSE [ answer |-> llm_error_answer(env.llm.text),
                answer_type |-> "kb_fallback",
                conversations |-> chain.conversations,
                asked |-> chain.asked \cup {"llm"},
                llm_calls |-> 1, llm_ok |-> FALSE, llm_error |-> env.llm.text,
                raised_steps |-> {"completion"} ])

\* Step 1 sending the message to the general agent when the classification
\* raises
route_to_agent_general_on_failure(message, env) ==
    IF env.route.raises
    THEN [ agent |-> "general",
           intent |-> "general",
           intent_data |-> [confidence |-> 50],
           raised_steps |-> {"classification"} ]
    ELSE [ agent |-> intent_to_agent(env.route.intent),
           intent |-> env.route.intent,
           intent_data |-> [confidence |-> env.route.confidence],
           raised_steps |-> {} ]

\* Step 1 of handle_regular_message: the agent, the intent and the intent_data
route_to_agent(message, env) ==
    IF env.route.raises
    THEN [ agent |-> simple_agent_routing_of[message],
           intent |-> simple_agent_routing_of[message],
           intent_data |-> [confidence |-> 50],
           raised_steps |-> {"classification"} ]
    ELSE [ agent |-> intent_to_agent(env.route.intent),
           intent |-> env.route.intent,
           intent_data |-> [confidence |-> env.route.confidence],
           raised_steps |-> {} ]

\* the return of handle_regular_message, the answer found in the knowledge base
kb_answer(svc, routed, tiers) ==
    [ raised |-> FALSE,
      response |->
        [ answer |-> tiers.kb_response.content,
          agent_type |-> tiers.agent,
          answer_type |-> tiers.kb_response.type,
          intent |-> routed.intent,
          intent_data |-> routed.intent_data,
          solution_summary |-> extract_solution_summary_of[tiers.kb_response.content],
          conversation_flow |-> "regular_flow",
          conversation_metrics |-> NoMetrics ],
      conversations |-> svc.conversations,
      asked |-> {"route"},
      raised_steps |-> routed.raised_steps,
      searched |-> tiers.searched,
      primary |-> routed.agent,
      llm_calls |-> 0, llm_ok |-> FALSE, llm_error |-> NONE ]

\* the return of handle_regular_message, the answer of the generative tier
llm_answer(routed, tiers, llm) ==
    [ raised |-> FALSE,
      response |->
        [ answer |-> llm.answer,
          agent_type |-> tiers.agent,
          answer_type |-> llm.answer_type,
          intent |-> routed.intent,
          intent_data |-> routed.intent_data,
          solution_summary |-> extract_solution_summary_of[llm.answer],
          conversation_flow |-> "regular_flow",
          conversation_metrics |-> NoMetrics ],
      conversations |-> llm.conversations,
      asked |-> {"route"} \cup llm.asked,
      raised_steps |-> routed.raised_steps \cup llm.raised_steps,
      searched |-> tiers.searched,
      primary |-> routed.agent,
      llm_calls |-> llm.llm_calls, llm_ok |-> llm.llm_ok, llm_error |-> llm.llm_error ]

handle_regular_message(svc, conversation_id, message, context, env) ==
    With(route_to_agent(message, env), LAMBDA routed :
    With(search_tiers(svc.kb, routed.agent, message), LAMBDA tiers :
    IF tiers.kb_response.found /\ tiers.kb_response.type = NONE
    THEN Raised(svc.conversations, routed.raised_steps \cup {"retrieval"},
                tiers.searched, routed.agent, {"route"})
    ELSE IF tiers.kb_response.found
    THEN kb_answer(svc, routed, tiers)
    ELSE llm_answer(routed, tiers, llm_tier(svc, conversation_id, env))))

\* (time.time() - start_time) * 1000, the time a turn takes
ProcessingTimeMs == 12

\* the except branch with the confidence of the keyword routing
error_fallback_response_half_confidence ==
    [ answer |-> ErrorAnswer,
      agent_type |-> "general",
      answer_type |-> "error_fallback",
      intent |-> "general",
      intent_data |-> [confidence |-> 50],
      solution_summary |-> NONE,
      conversation_flow |-> NONE,
      conversation_metrics |->
          [ processing_time_ms |-> ProcessingTimeMs,
            is_follow_up |-> FALSE, attempt_count |-> 0, frustration_level |-> 0,
            conversation_state |-> "error", tone_used |-> "helpful_friendly" ] ]

\* the response of coordinator's except branch
error_fallback_response ==
    [ answer |-> ErrorAnswer,
      agent_type |-> "general",
      answer_type |-> "error_fallback",
      intent |-> "general",
      intent_data |-> [confidence |-> 0],
      solution_summary |-> NONE,
      conversation_flow |-> NONE,
      conversation_metrics |->
          [ processing_time_ms |-> ProcessingTimeMs,
            is_follow_up |-> FALSE, attempt_count |-> 0, frustration_level |-> 0,
            conversation_state |-> "error", tone_used |-> "helpful_friendly" ] ]

\* the conversation_metrics that coordinator adds to the response
conversation_metrics(is_follow_up, context) ==
    [ processing_time_ms |-> ProcessingTimeMs,
      is_follow_up |-> is_follow_up,
      attempt_count |-> context.attempt_count,
      frustration_level |-> context.frustration_level,
      conversation_state |-> context.current_state,
      tone_used |-> context.preferred_tone ]

\* coordinator updating the context also when its handler has raised
coordinator_return_updating_on_error(svc, conversation_id, message, contexts, is_follow_up, h) ==
    With([ conversation_id |-> conversation_id,
           message |-> message,
           is_follow_up |-> is_follow_up,
           context_read |-> contexts[conversation_id],
           raised_steps |-> h.raised_steps,
           propagated |-> h.raised,
           primary |-> h.primary,
           searched |-> h.searched,
           llm_calls |-> h.llm_calls,
           llm_ok |-> h.llm_ok,
           llm_error |-> h.llm_error,
           asked |-> h.asked ], LAMBDA done :
    With(update_context(contexts, conversation_id, message,
                        IF h.raised THEN NONE ELSE h.response.solution_summary),
         LAMBDA updated :
    [ svc |-> [svc EXCEPT !.conversation_contexts = updated,
                          !.conversations = h.conversations],
      response |->
          IF h.raised
          THEN error_fallback_response
          ELSE [h.response EXCEPT !.conversation_metrics =
                    conversation_metrics(is_follow_up, updated[conversation_id])],
      turn |-> done ]))

\* coordinator, once the handler has returned h or has raised: the contexts
\* are the service's after get_or_create_context
coordinator_return(svc, conversation_id, message, contexts, is_follow_up, h) ==
    With([ conversation_id |-> conversation_id,
           message |-> message,
           is_follow_up |-> is_follow_up,
           context_read |-> contexts[conversation_id],
           raised_steps |-> h.raised_steps,
           propagated |-> h.raised,
           primary |-> h.primary,
           searched |-> h.searched,
           llm_calls |-> h.llm_calls,
           llm_ok |-> h.llm_ok,
           llm_error |-> h.llm_error,
           asked |-> h.asked ], LAMBDA done :
    IF h.raised
    THEN [ svc |-> [svc EXCEPT !.conversation_contexts = contexts,
                               !.conversations = h.conversations],
           response |-> error_fallback_response,
           turn |-> done ]
    ELSE With(update_context(contexts, conversation_id, message,
                             h.response.solution_summary), LAMBDA updated :
         [ svc |-> [svc EXCEPT !.conversation_contexts = updated,
                               !.conversations = h.conversations],
           response |->
               [h.response EXCEPT !.conversation_metrics =
                   conversation_metrics(is_follow_up, updated[conversation_id])],
           turn |-> done ]))

\* coordinator, on the service svc = [conversation_contexts, conversations, kb,
\* llm_available]: the service afterwards, the response returned, and what the
\* turn did (turn)
coordinator(svc, conversation_id, message, env) ==
    With(get_or_create_context(
             svc.conversation_contexts, conversation_id, conversation_id),
         LAMBDA contexts :
    With(detect_follow_up(message, contexts[conversation_id]), LAMBDA is_follow_up :
    coordinator_return(svc, conversation_id, message, contexts, is_follow_up,
        IF is_follow_up
        THEN handle_follow_up(svc, conversation_id, message,
                              contexts[conversation_id], env)
        ELSE handle_regular_message(svc, conversation_id, message,
                                    contexts[conversation_id], env))))

process_message(svc, conversation_id, message, env) ==
    coordinator(svc, conversation_id, message, env)

(***************************************************************************)
(* ConversationMetricsCollector.  Times are in hours; a dict is a record,  *)
(* a key that is absent is not in its domain.                              *)
(***************************************************************************)
\* timedelta(days=7)
RetentionHours == 168

\* time_window_hours of calculate_intent_resolution_rate
DefaultWindowHours == 24

\* d.get(key, default)
get(d, key, default) == IF key \in DOMAIN d THEN d[key] ELSE default

ConversationMetric(conversation_id, user_id, timestamp, metric_type, value) ==
    [ conversation_id |-> conversation_id,
      user_id |-> user_id,
      timestamp |-> timestamp,
      metric_type |-> metric_type,
      value |-> value ]

\* _record_metric without the pruning
record_metric_keeps_all(metrics_, utcnow, conversation_id, metric_type, value, metadata) ==
    Append(metrics_,
           ConversationMetric(conversation_id, get(metadata, "user_id", "unknown"),
                              utcnow, metric_type, value))

\* _record_metric: self.metrics afterwards
record_metric(metrics_, utcnow, conversation_id, metric_type, value, metadata) ==
    SelectSeq(Append(metrics_,
                     ConversationMetric(conversation_id,
                                        get(metadata, "user_id", "unknown"),
                                        utcnow, metric_type, value)),
              LAMBDA m : m.timestamp >= utcnow - RetentionHours)

metrics_to_track(interaction_data) ==
    << <<"processing_time", get(interaction_data, "processing_time_ms", 0)>>,
       <<"is_follow_up", get(interaction_data, "is_follow_up", FALSE)>>,
       <<"frustration_level", get(interaction_data, "frustration_level", 0)>>,
       <<"attempt_count", get(interaction_data, "attempt_count", 1)>>,
       <<"answer_type", get(interaction_data, "answer_type", "unknown")>>,
       <<"tone_used", get(interaction_data, "tone_used", "default")>> >>

\* the loop of track_conversation_quality, from metrics_to_track[i] on
RECURSIVE record_metrics(_, _, _, _, _)
record_metrics(metrics_, utcnow, conversation_id, interaction_data, i) ==
    IF i > Len(metrics_to_track(interaction_data)) THEN metrics_
    ELSE record_metrics(
             record_metric(metrics_, utcnow, conversation_id,
                           metrics_to_track(interaction_data)[i][1],
                           metrics_to_track(interaction_data)[i][2],
                           interaction_data),
             utcnow, conversation_id, interaction_data, i + 1)

\* track_conversation_quality: self.metrics afterwards
track_conversation_quality(metrics_, utcnow, conversation_id, interaction_data) ==
    record_metrics(metrics_, utcnow, conversation_id, interaction_data, 1)

\* the metrics that calculate_intent_resolution_rate groups
recent(metrics_, utcnow, time_window_hours) ==
    SelectSeq(metrics_, LAMBDA m : m.timestamp >= utcnow - time_window_hours)

\* recent_conversations[conv_id].get(metric_type, default): each metric in
\* turn overwrites the value of its type
conv_data_get(recent_, conv_id, metric_type, default) ==
    With({i \in 1..Len(recent_) : /\ recent_[i].conversation_id = conv_id
                                  /\ recent_[i].metric_type = metric_type},
         LAMBDA found :
    IF found = {} THEN default
    ELSE recent_[CHOOSE i \in found : \A j \in found : j <= i].value)

\* calculate_intent_resolution_rate: the rate is resolved_count /
\* total_conversations, and 0.0 when total_conversations is 0
calculate_intent_resolution_rate(metrics_, utcnow, time_window_hours) ==
    With(recent(metrics_, utcnow, time_window_hours), LAMBDA recent_ :
    With({recent_[i].conversation_id : i \in 1..Len(recent_)},
         LAMBDA recent_conversations :
    [ total_conversations |-> Cardinality(recent_conversations),
      resolved_count |->
          Cardinality({c \in recent_conversations :
              /\ conv_data_get(recent_, c, "frustration_level", 0) < 5
              /\ conv_data_get(recent_, c, "attempt_count", 1) <= 3}) ]))

\* the values of the metrics of a type of a conversation, in order
values_of(metrics_, conversation_id, metric_type) ==
    With(SelectSeq(metrics_, LAMBDA m : /\ m.conversation_id = conversation_id
                                        /\ m.metric_type = metric_type),
         LAMBDA found : [i \in 1..Len(found) |-> found[i].value])

\* _get_conversation_metrics: processing_times is set once a processing_time
\* is met
get_conversation_metrics(metrics_, conversation_id) ==
    [ interaction_count |->
          Len(SelectSeq(metrics_, LAMBDA m : m.conversation_id = conversation_id)),
      frustration_levels |-> values_of(metrics_, conversation_id, "frustration_level"),
      answer_types |-> values_of(metrics_, conversation_id, "answer_type") ]
    @@ (IF values_of(metrics_, conversation_id, "processing_time") = << >>
        THEN << >>
        ELSE [processing_times |->
                  values_of(metrics_, conversation_id, "processing_time")])

\* max(frustration_levels) if frustration_levels else 0
max_or_zero(levels) ==
    IF levels = << >> THEN 0
    ELSE CHOOSE x \in {levels[i] : i \in 1..Len(levels)} :
             \A i \in 1..Len(levels) : levels[i] <= x

\* _predict_outcome
predict_outcome(conv_metrics) ==
    With(max_or_zero(get(conv_metrics, "frustration_levels", <<0>>)),
         LAMBDA max_frustration :
    With(get(conv_metrics, "attempt_count", 1), LAMBDA attempt_count :
    IF max_frustration >= 7 \/ attempt_count >= 4 THEN "likely_escalation"
    ELSE IF max_frustration < 3 /\ attempt_count <= 2 THEN "likely_resolved"
    ELSE "ongoing_assistance"))

get_conversation_insights(metrics_, conversation_id) ==
    With(get_conversation_metrics(metrics_, conversation_id), LAMBDA conv_metrics :
    [ conversation_id |-> conversation_id,
      total_interactions |-> get(conv_metrics, "interaction_count", 0),
      average_response_time |-> get(conv_metrics, "avg_processing_time", 0),
      frustration_progression |-> get(conv_metrics, "frustration_levels", << >>),
      resolution_attempts |-> get(conv_metrics, "attempt_count", 0),
      primary_tone |-> get(conv_metrics, "primary_tone", "unknown"),
      answer_types_used |-> get(conv_metrics, "answer_types", << >>),
      outcome_prediction |-> predict_outcome(conv_metrics) ])

(***************************************************************************)
(* The state.  kb and llm_available are what ChatService.__init__ finds    *)
(* in the process environment; conversation_contexts and conversations are *)
(* the maps of the ChatService instance injected into the WebSocket        *)
(* sessions; response is the response of the last turn.  turn records what *)
(* the last turn did, last_context the context each conversation's last    *)
(* turn left, turns the number of turns processed.  call is a direct call  *)
(* of one of the tracker's functions: its arguments and its result.        *)
(* metrics is the list of the metrics collector and now the clock, in      *)
(* hours.  active_connections holds the clients registered with the        *)
(* connection manager, each with its socket; session is where the         *)
(* WebSocket handler of a socket is (none: not started; loop: at the head  *)
(* of its message loop; returned: it has left the loop and returned;       *)
(* failed: it has ended in its outer except), heartbeat_task the state of  *)
(* the task the handler started.  coroutines holds, per conversation, the  *)
(* turn suspended in coordinator, sends the sends suspended in send_json,  *)
(* request_counts the timestamps the rate-limit middleware keeps per IP.   *)
(***************************************************************************)
VARIABLES kb, llm_available, conversation_contexts, conversations, chain_tone,
          response, turn, last_context, turns, call, metrics, now,
          active_connections, session, heartbeat_task, coroutines, sends,
          request_counts

vars == << kb, llm_available, conversation_contexts, conversations, chain_tone,
           response, turn, last_context, turns, call, metrics, now,
           active_connections, session, heartbeat_task, coroutines, sends,
           request_counts >>

\* connection_manager and the handlers and tasks of the clients
connection_vars == << active_connections, session, heartbeat_task >>

\* ChatConnectionManager(): no client is registered
NoSockets == [c \in {} |-> c]

\* connection_manager.connect(websocket, client_id): active_connections
\* afterwards
connect(connections, websocket, client_id) ==
    [c \in DOMAIN connections \cup {client_id} |->
         IF c = client_id THEN websocket ELSE connections[c]]

\* no client has connected
NoConnections ==
    /\ active_connections = NoSockets
    /\ session = [c \in ConvIds |-> "none"]
    /\ heartbeat_task = [c \in ConvIds |-> "none"]

\* every client has connected and its handler is in its message loop
Connected ==
    /\ active_connections = [c \in ConvIds |-> c]
    /\ session = [c \in ConvIds |-> "loop"]
    /\ heartbeat_task = [c \in ConvIds |-> "running"]

\* connection_manager.disconnect(client_id): active_connections afterwards
disconnect(connections, client_id) ==
    [c \in DOMAIN connections \ {client_id} |-> connections[c]]

\* connection_manager.send_personal_message and send_heartbeat: a send that
\* fails is caught and the client is disconnected; active_connections afterwards
send_json(connections, client_id, sent) ==
    IF client_id \in DOMAIN connections /\ ~sent
    THEN disconnect(connections, client_id)
    ELSE connections

\* the turns suspended in coordinator and the sends suspended in send_json
task_vars == << coroutines, sends >>

NoCoroutine == [at |-> "none"]

\* no turn and no send is in progress
NoTasks ==
    /\ coroutines = [c \in ConvIds |-> NoCoroutine]
    /\ sends = {}

ClientIPs == {"10.0.0.1", "10.0.0.2"}

\* request_counts = defaultdict(list), the module of the middleware imported
RateLimiter == request_counts = [ip \in ClientIPs |-> << >>]

\* the chains of the service, and for each the tone whose prompt was looked up
\* when it was constructed
chain_vars == << conversations, chain_tone >>

\* metrics_collector, the instance of the module, and the clock
collector_vars == << metrics, now >>

\* metrics_collector = ConversationMetricsCollector()
ConversationMetricsCollector == metrics = << >> /\ now = 0

NoCall == [absent |-> TRUE]

NoTurn == [absent |-> TRUE]

\* ChatService(): a new instance
ChatService ==
    [ conversation_contexts |-> [c \in ConvIds |-> NoContext],
      conversations |-> {},
      kb |-> kb,
      llm_available |-> llm_available ]

\* get_chat_service
get_chat_service == ChatService

Init ==
    /\ kb = "corpus"
    /\ llm_available \in BOOLEAN
    /\ conversation_contexts = [c \in ConvIds |-> NoContext]
    /\ conversations = {}
    /\ chain_tone = [c \in ConvIds |-> NONE]
    /\ NoTasks
    /\ RateLimiter
    /\ response = NoMetrics
    /\ turn = NoTurn
    /\ last_context = [c \in ConvIds |-> NoContext]
    /\ turns = 0
    /\ ConversationMetricsCollector
    /\ Connected
    /\ call = NoCall

\* what a turn leaves in response, turn, last_context and turns
Returned(r, channel, conversation_id) ==
    /\ response' = r.response
    /\ turn' = [ channel |-> channel,
                 previous_context |-> last_context[conversation_id],
                 context_after |-> r.svc.conversation_contexts[conversation_id] ]
               @@ r.turn
    /\ last_context' = [last_context EXCEPT
                            ![conversation_id] =
                                r.svc.conversation_contexts[conversation_id]]
    /\ turns' = turns + 1

\* the "message" branch of websocket_endpoint: the message is processed by the
\* chat service of the session, conversation_id = client_id
websocket_message(client_id, content, env) ==
    /\ client_id \in DOMAIN active_connections
    /\ session[client_id] = "loop"
    /\ turn = NoTurn
    /\ \E r \in { process_message(
                        [ conversation_contexts |-> conversation_contexts,
                          conversations |-> conversations,
                          kb |-> kb,
                          llm_available |-> llm_available ],
                        client_id, content, env) } :
           /\ asked_only(env, r.turn.asked)
           /\ conversation_contexts' = r.svc.conversation_contexts
           /\ conversations' = r.svc.conversations
           /\ chain_tone' = chain_tone_after(chain_tone, conversations,
                                             r.svc.conversations, client_id,
                                             r.turn.context_read.preferred_tone)
           /\ Returned(r, "websocket", client_id)
           /\ metrics' = track_conversation_quality(
                              metrics, now, client_id, r.response.conversation_metrics)
    /\ UNCHANGED << kb, llm_available, task_vars, request_counts, call, now,
                    connection_vars >>

\* websocket_endpoint: a chat message received in the session of client_id is
\* processed by the session's chat service, conversation_id = client_id
websocket_endpoint(client_id, content, env) ==
    /\ turns < MaxTurns
    /\ websocket_message(client_id, content, env)

\* POST /messages: the message is processed by the chat service that
\* get_chat_service provides for the request, conversation_id = message.id
send_message(message_id, content, env) ==
    /\ turns < MaxTurns
    /\ turn = NoTurn
    /\ \E r \in {process_message(get_chat_service, message_id, content, env)} :
           /\ asked_only(env, r.turn.asked)
           /\ Returned(r, "rest", message_id)
    /\ UNCHANGED << kb, llm_available, task_vars, request_counts,
                    conversation_contexts, chain_vars, call, collector_vars,
                    connection_vars >>

\* the response is handed to the transport: returned from POST /messages, or
\* sent to the client of the WebSocket session with send_personal_message
send_response(sent) ==
    /\ turn # NoTurn
    /\ response' = NoMetrics
    /\ turn' = NoTurn
    /\ active_connections' =
           IF turn.channel = "websocket"
           THEN send_json(active_connections, turn.conversation_id, sent)
           ELSE active_connections
    /\ UNCHANGED << kb, llm_available, task_vars, request_counts,
                    conversation_contexts, chain_vars, last_context, turns,
                    call, collector_vars, session, heartbeat_task >>

\* the turns of clients that are connected and stay so: every send succeeds
Next ==
    \/ \E c \in ConvIds, m \in TurnMsgs, env \in Envs : websocket_endpoint(c, m, env)
    \/ \E c \in ConvIds, m \in TurnMsgs, env \in Envs : send_message(c, m, env)
    \/ send_response(TRUE)

Spec == Init /\ [][Next]_vars

(***************************************************************************)
(* The functions of the tracker called directly: the arguments are drawn   *)
(* when the call is set up, a step applies the function to them.           *)
(***************************************************************************)
MaxAttempts == 3

\* a last_solution_offered that is set
SomeSolution == "Try restarting your modem"

\* a solution_summary of the current turn
NewSolution == "Check the cables"

\* the solution_offered argument of update_context
SolutionsOffered == {NONE, "", NewSolution}

\* a resolution attempt recorded by an earlier turn
EarlierAttempt ==
    [ solution |-> "Plug in the gateway",
      outcome |-> "ineffective",
      user_feedback |-> "that didn't work" ]

CallContexts ==
    { [ConversationContext("c1", "c1") EXCEPT
           !.current_state = s,
           !.last_solution_offered = l,
           !.attempt_count = a,
           !.frustration_level = f,
           !.resolution_attempts = r] :
      s \in ConversationState, l \in {NONE, SomeSolution},
      a \in 0..MaxAttempts, f \in 0..10,
      r \in {<< >>, <<EarlierAttempt>>} }

CallInit ==
    /\ kb = "corpus"
    /\ llm_available = TRUE
    /\ conversation_contexts = [c \in ConvIds |-> NoContext]
    /\ conversations = {}
    /\ chain_tone = [c \in ConvIds |-> NONE]
    /\ NoTasks
    /\ RateLimiter
    /\ response = NoMetrics
    /\ turn = NoTurn
    /\ last_context = [c \in ConvIds |-> NoContext]
    /\ turns = 0
    /\ ConversationMetricsCollector
    /\ NoConnections
    /\ call \in [ fn : {NONE}, message : Msgs, context : CallContexts,
                  solution_offered : SolutionsOffered, result : {NONE} ]

Called(fn, result) ==
    /\ call.fn = NONE
    /\ call' = [call EXCEPT !.fn = fn, !.result = result]
    /\ UNCHANGED << kb, llm_available, task_vars, request_counts,
                    conversation_contexts, chain_vars, response, turn,
                    last_context, turns, collector_vars, connection_vars >>

call_detect_follow_up ==
    Called("detect_follow_up", detect_follow_up(call.message, call.context))

call_determine_tone ==
    Called("determine_tone", determine_tone(call.context))

\* update_context for a conversation whose context is call.context: the
\* context afterwards
call_update_context ==
    Called("update_context",
           update_context([c \in ConvIds |->
                               IF c = "c1" THEN call.context ELSE NoContext],
                          "c1", call.message, call.solution_offered)["c1"])

CallNext ==
    \/ call_detect_follow_up
    \/ call_determine_tone
    \/ call_update_context

SpecCalls == CallInit /\ [][CallNext]_vars

(***************************************************************************)
(* One WebSocket session whose messages all match a frustration indicator. *)
(***************************************************************************)
MaxFrustratedTurns == 5

\* messages in which detect_frustration_level finds an indicator
FrustratedMsgs ==
    { "this is frustrating",
      "this bot is useless",
      "that didn't work, this is really frustrating" }

frustrated_message(content, env) ==
    /\ turns < MaxFrustratedTurns
    /\ websocket_message("c1", content, env)

FrustratedNext ==
    \/ \E m \in FrustratedMsgs, env \in Envs : frustrated_message(m, env)
    \/ send_response(TRUE)

SpecFrustrated == Init /\ [][FrustratedNext]_vars

(***************************************************************************)
(* Python floats (IEEE 754 binary64) in the range the classifier uses: a   *)
(* value below 16 is a function from 1..68 to bits, bit i weighing         *)
(* 2^(i-65).  Every result is rounded to 53 significant bits, to nearest,  *)
(* ties to even.                                                           *)
(***************************************************************************)
\* what is left of f/q below its first k binary places, as a numerator over q
RECURSIVE remainder(_, _, _)
remainder(f, q, k) == IF k = 0 THEN f ELSE (2 * remainder(f, q, k - 1)) % q

\* the first n bits of the binary fraction f/q, and whether a remainder is left
expand(f, q, n) ==
    [ bits |-> [k \in 1..n |-> IF 2 * remainder(f, q, k - 1) >= q THEN 1 ELSE 0],
      inexact |-> remainder(f, q, n) # 0 ]

\* x + y without rounding, from bit i on with carry c
RECURSIVE add_from(_, _, _, _)
add_from(x, y, i, c) ==
    IF i > 68 THEN << >>
    ELSE <<(x[i] + y[i] + c) % 2>> \o add_from(x, y, i + 1, (x[i] + y[i] + c) \div 2)

\* the index of the leading bit of x, 0 for zero
leading_bit(x) ==
    IF \A i \in 1..68 : x[i] = 0 THEN 0
    ELSE CHOOSE i \in 1..68 : x[i] = 1 /\ \A j \in (i + 1)..68 : x[j] = 0

\* 2^(i-65)
bit_at(i) == [j \in 1..68 |-> IF j = i THEN 1 ELSE 0]

\* x, followed by a nonzero tail if inexact, rounded to 53 significant bits
round53(x, inexact) ==
    With(leading_bit(x) - 53, LAMBDA cut :
    IF cut <= 0 THEN x
    ELSE With(Table([i \in 1..68 |-> IF i <= cut THEN 0 ELSE x[i]]), LAMBDA kept :
         IF /\ x[cut] = 1
            /\ \/ inexact
               \/ \E i \in 1..(cut - 1) : x[i] = 1
               \/ x[cut + 1] = 1
         THEN add_from(kept, bit_at(cut + 1), 1, 0)
         ELSE kept))

\* the float that the literal p/q denotes
float(p, q) ==
    With(expand(p % q, q, 64), LAMBDA e :
    round53([i \in 1..68 |->
                IF i <= 64 THEN e.bits[65 - i]
                ELSE ((p \div q) \div (2 ^ (i - 65))) % 2],
            e.inexact))

\* x + y
float_add(x, y) ==
    With(x, LAMBDA a : With(y, LAMBDA b : round53(add_from(a, b, 1, 0), FALSE)))

\* x > y
float_gt(x, y) ==
    \E i \in 1..68 : x[i] = 1 /\ y[i] = 0 /\ \A j \in (i + 1)..68 : x[j] = y[j]

\* min(x, y)
float_min(x, y) == IF float_gt(x, y) THEN y ELSE x

(***************************************************************************)
(* LocalIntentService (services/local_intent_service.py).                  *)
(***************************************************************************)
\* self.intent_patterns, in declaration order; confidence_boost in tenths
intent_patterns ==
    << [ intent |-> "billing",
         keywords |->
           << "bill", "billing", "charge", "charges", "payment", "pay", "cost",
              "costs", "expensive", "high bill", "overcharge", "refund", "credit",
              "balance", "account", "statement", "invoice", "fee", "fees", "price",
              "pricing", "my bill is so high", "help me understand my bill",
              "explain my charges", "why is my bill", "billing question",
              "payment due", "autopay" >>,
         phrases |->
           << "my bill is so high", "help me understand my bill",
              "explain my charges", "why is my bill", "how much do i owe",
              "payment is due", "can't afford", "billing error", "wrong charge",
              "unexpected charge" >>,
         confidence_boost |-> 3 ],
       [ intent |-> "technical_support",
         keywords |->
           << "internet", "wifi", "connection", "slow", "down", "outage",
              "not working", "broken", "fix", "repair", "troubleshoot", "speed",
              "bandwidth", "modem", "router", "cable", "signal", "network",
              "ethernet", "wireless", "connect", "disconnect", "reset", "reboot",
              "setup", "install", "configuration" >>,
         phrases |->
           << "internet is slow", "wifi not working", "connection problems",
              "can't connect", "internet is down", "no internet", "wifi issues",
              "slow speed", "internet out", "connection lost", "can't get online",
              "network problems" >>,
         confidence_boost |-> 3 ],
       [ intent |-> "equipment",
         keywords |->
           << "box", "cable box", "remote", "tv", "television", "dvr", "receiver",
              "equipment", "device", "hardware", "replacement", "upgrade",
              "install", "setup", "activation", "activate", "new equipment",
              "broken equipment" >>,
         phrases |->
           << "cable box not working", "remote not working", "tv problems",
              "need new equipment", "equipment broken", "box is broken",
              "remote broken", "dvr issues" >>,
         confidence_boost |-> 2 ],
       [ intent |-> "general",
         keywords |->
           << "help", "support", "assistance", "question", "info", "information",
              "service", "customer service", "representative", "agent",
              "talk to someone" >>,
         phrases |->
           << "can you help me", "need assistance", "have a question", "need help",
              "customer service", "talk to agent", "speak to someone" >>,
         confidence_boost |-> 1 ] >>

\* the entries of list that occur in message_lower, in list order
found_in(list, message_lower) ==
    SelectSeq(list, LAMBDA w : contains(message_lower, lower(w)))

\* score += x, n times
RECURSIVE add_times(_, _, _)
add_times(score, x, n) ==
    IF n = 0 THEN score ELSE add_times(float_add(score, x), x, n - 1)

\* the score of one category for phrases and keywords matched: 0.8 for each
\* phrase, then 0.3 for each keyword, then the boost if the score is above 0
intent_score(phrases, keywords, boost) ==
    With(add_times(add_times(float(0, 1), float(8, 10), phrases),
                   float(3, 10), keywords), LAMBDA score :
    IF float_gt(score, float(0, 1)) THEN float_add(score, float(boost, 10))
    ELSE score)

\* the scores and matches of the categories for message_lower
intent_scores(message_lower) ==
    [ i \in 1..Len(intent_patterns) |->
        With(found_in(intent_patterns[i].phrases, message_lower), LAMBDA ph :
        With(found_in(intent_patterns[i].keywords, message_lower), LAMBDA kw :
        [ intent |-> intent_patterns[i].intent,
          phrases |-> Len(ph),
          keywords |-> Len(kw),
          score |-> intent_score(Len(ph), Len(kw),
                                 intent_patterns[i].confidence_boost),
          keywords_found |-> ph \o kw ])) ]

\* max(intent_scores.keys(), key=...): the first category no other one exceeds
best_intent(scores) ==
    scores[CHOOSE i \in DOMAIN scores :
               /\ \A j \in DOMAIN scores : ~float_gt(scores[j].score, scores[i].score)
               /\ \A j \in 1..(i - 1) : float_gt(scores[i].score, scores[j].score)]

\* the confidence reported for the score of the best category
local_confidence(score) ==
    With(float_min(score, float(1, 1)), LAMBDA confidence :
    IF float_gt(confidence, float(8, 10))
    THEN float_min(float_add(confidence, float(15, 100)), float(95, 100))
    ELSE confidence)

LocalIntentService_classify_intent(message) ==
    IF message = ""
    THEN [ intent |-> "general", confidence |-> float(5, 10),
           method |-> "local_fallback", keywords_matched |-> << >> ]
    ELSE With(intent_scores(strip(lower(message))), LAMBDA scores :
         With(best_intent(scores), LAMBDA best :
         IF ~float_gt(best.score, float(0, 1))
         THEN [ intent |-> "general", confidence |-> float(5, 10),
                method |-> "local_default", keywords_matched |-> << >> ]
         ELSE [ intent |-> best.intent,
                confidence |-> local_confidence(best.score),
                method |-> "local_keyword_matching",
                keywords_matched |-> best.keywords_found ]))

\* LocalIntentService.route_message: the agent type and the classification
LocalIntentService_route_message(message) ==
    With(LocalIntentService_classify_intent(message), LAMBDA intent_data :
    [ raised |-> FALSE,
      intent |-> IF intent_data.intent = "technical_support" THEN "technical_support"
                 ELSE IF intent_data.intent = "billing" THEN "billing"
                 ELSE IF intent_data.intent = "equipment" THEN "technical_support"
                 ELSE "general",
      intent_data |-> intent_data ])

(***************************************************************************)
(* IntentService (services/intent_service.py).  json.loads is modelled on  *)
(* the texts below: an object whose members are strings, numbers, literals *)
(* or arrays, a string, a number, an array, or a text that is not JSON.    *)
(***************************************************************************)
\* i is outside string quotes and brackets of s
top_level(s, i) ==
    /\ Cardinality({j \in 1..(i - 1) : CharAt(s, j) = "\""}) % 2 = 0
    /\ Cardinality({j \in 1..(i - 1) : CharAt(s, j) = "["})
           = Cardinality({j \in 1..(i - 1) : CharAt(s, j) = "]"})

\* the parts of s between the occurrences of the separator c at top level
segments(s, c) ==
    With({i \in 1..Len(s) : CharAt(s, i) = c /\ top_level(s, i)}, LAMBDA cuts :
    { SubSeq(s, a + 1, (CHOOSE b \in cuts \cup {Len(s) + 1} :
                            b > a /\ \A d \in cuts : d > a => b <= d) - 1) :
      a \in cuts \cup {0} })

json_string(t) ==
    /\ Len(t) >= 2
    /\ CharAt(t, 1) = "\"" /\ CharAt(t, Len(t)) = "\""
    /\ \A i \in 2..(Len(t) - 1) : CharAt(t, i) # "\""

json_number(t) ==
    /\ t # ""
    /\ \A i \in 1..Len(t) : contains("0123456789.", CharAt(t, i))
    /\ contains("0123456789", CharAt(t, 1))
    /\ contains("0123456789", CharAt(t, Len(t)))

json_array(t) == Len(t) >= 2 /\ CharAt(t, 1) = "[" /\ CharAt(t, Len(t)) = "]"

\* the Python value of the JSON text t, by its type
json_value(t) ==
    IF json_string(t) THEN [type |-> "str", text |-> SubSeq(t, 2, Len(t) - 1)]
    ELSE IF json_number(t) THEN [type |-> "number", text |-> t]
    ELSE IF json_array(t) THEN [type |-> "list", text |-> t]
    ELSE IF t \in {"true", "false", "null"} THEN [type |-> "literal", text |-> t]
    ELSE [type |-> "JSONDecodeError", text |-> t]

\* the key and the value of a member "key": value
json_member(t) ==
    With({i \in 1..Len(t) : CharAt(t, i) = ":" /\ top_level(t, i)}, LAMBDA colons :
    IF colons = {} THEN [key |-> json_value(""), value |-> json_value("")]
    ELSE With(CHOOSE i \in colons : \A j \in colons : i <= j, LAMBDA c :
         [ key |-> json_value(strip(SubSeq(t, 1, c - 1))),
           value |-> json_value(strip(SubSeq(t, c + 1, Len(t)))) ]))

json_object(t) == Len(t) >= 2 /\ CharAt(t, 1) = "{" /\ CharAt(t, Len(t)) = "}"

\* json.loads(s): a dict (its items as a function), another value, or
\* JSONDecodeError
json_loads(s) ==
    With(strip(s), LAMBDA t :
    IF ~json_object(t) THEN json_value(t)
    ELSE With(strip(SubSeq(t, 2, Len(t) - 1)), LAMBDA inner :
         With(IF inner = "" THEN {}
              ELSE {json_member(strip(m)) : m \in segments(inner, ",")},
              LAMBDA members :
         IF \E m \in members :
                m.key.type # "str" \/ m.value.type = "JSONDecodeError"
         THEN [type |-> "JSONDecodeError", text |-> t]
         ELSE [ type |-> "dict",
                items |-> [k \in {m.key.text : m \in members} |->
                              (CHOOSE m \in members : m.key.text = k).value] ])))

\* the contents of the model's reply
RemoteContents ==
    { "{\"intent\": \"billing\", \"confidence\": 0.9, \"keywords\": [\"bill\", \"charge\"]}",
      "{\"intent\": \"technical_support\", \"confidence\": 0.8, \"keywords\": []}",
      "{\"intent\": \"equipment\", \"confidence\": 0.7, \"keywords\": [\"modem\"]}",
      "{\"intent\": \"feature_request\", \"confidence\": 0.6, \"keywords\": []}",
      "{\"category\": \"billing\"}",
      "The intent is billing.",
      "\"billing\"",
      "" }

\* chain.ainvoke returns a reply or raises
RemoteOutcomes ==
    {[raises |-> FALSE, content |-> c] : c \in RemoteContents}
    \cup {[raises |-> TRUE, content |-> ""]}

\* the classification returned when the reply cannot be parsed
OtherIntent ==
    [ type |-> "dict",
      items |-> [ intent |-> [type |-> "str", text |-> "other"],
                  confidence |-> [type |-> "number", text |-> "0.0"],
                  keywords |-> [type |-> "list", text |-> "[]"] ] ]

\* IntentService.classify_intent: the value returned, or raised
IntentService_classify_intent(remote) ==
    IF remote.raises THEN [raised |-> TRUE, value |-> NONE]
    ELSE With(json_loads(remote.content), LAMBDA parsed :
         [ raised |-> FALSE,
           value |-> IF parsed.type = "JSONDecodeError" THEN OtherIntent
                     ELSE parsed ])

\* intent_data["intent"] == name
intent_is(intent_data, name) ==
    intent_data.items["intent"] = [type |-> "str", text |-> name]

\* IntentService.route_message: the agent type and the classification, or raised
IntentService_route_message(remote) ==
    With(IntentService_classify_intent(remote), LAMBDA c :
    IF c.raised THEN [raised |-> TRUE, intent |-> NONE, intent_data |-> NONE]
    ELSE IF c.value.type # "dict" \/ "intent" \notin DOMAIN c.value.items
    THEN [raised |-> TRUE, intent |-> NONE, intent_data |-> c.value]
    ELSE [ raised |-> FALSE,
           intent |-> IF intent_is(c.value, "technical_support")
                          THEN "technical_support"
                      ELSE IF intent_is(c.value, "billing") THEN "billing"
                      ELSE IF intent_is(c.value, "feature_request")
                          THEN "feature_request"
                      ELSE "general",
           intent_data |-> c.value ])

(***************************************************************************)
(* The classifiers called directly, and Step 1 of handle_regular_message   *)
(* with each of the two services that __init__ can install.                *)
(***************************************************************************)
IntentServices == {"LocalIntentService", "IntentService"}

IntentInit ==
    /\ kb = "corpus"
    /\ llm_available = TRUE
    /\ conversation_contexts = [c \in ConvIds |-> NoContext]
    /\ conversations = {}
    /\ chain_tone = [c \in ConvIds |-> NONE]
    /\ NoTasks
    /\ RateLimiter
    /\ response = NoMetrics
    /\ turn = NoTurn
    /\ last_context = [c \in ConvIds |-> NoContext]
    /\ turns = 0
    /\ ConversationMetricsCollector
    /\ NoConnections
    /\ call \in [ fn : {NONE}, intent_service : IntentServices, message : IntentMsgs,
                  remote : RemoteOutcomes, result : {NONE} ]

\* self.intent_service.classify_intent(message)
call_classify_intent ==
    Called("classify_intent",
           IF call.intent_service = "LocalIntentService"
           THEN [ raised |-> FALSE,
                  value |-> LocalIntentService_classify_intent(call.message) ]
           ELSE IntentService_classify_intent(call.remote))

\* self.intent_service.route_message(message)
intent_service_route_message(intent_service, message, remote) ==
    IF intent_service = "LocalIntentService"
    THEN LocalIntentService_route_message(message)
    ELSE IntentService_route_message(remote)

call_route_message ==
    Called("route_message",
           intent_service_route_message(call.intent_service, call.message, call.remote))

\* Step 1 of handle_regular_message: the route returned and the agent chosen
call_route_to_agent ==
    \E r \in {intent_service_route_message(call.intent_service, call.message,
                                           call.remote)} :
        Called("route_to_agent",
               [ route |-> r,
                 step |-> route_to_agent(call.message,
                              [route |-> [ raises |-> r.raised, intent |-> r.intent,
                                           confidence |-> NONE ]]) ])

IntentNext ==
    \/ call_classify_intent
    \/ call_route_message
    \/ call_route_to_agent

SpecIntent == IntentInit /\ [][IntentNext]_vars

(***************************************************************************)
(* search_agent_kb called directly, on the categories of one agent in      *)
(* every order.                                                            *)
(***************************************************************************)
SearchCategories ==
    { [ name |-> "internet_outage",
        responses |->
          << [ content |-> "Check the outage map",
               keywords |-> <<"outage", "down">>,
               type |-> "kb_exact" ],
             [ content |-> "Restart your modem",
               keywords |-> <<"restart", "modem">>,
               type |-> "kb_exact" ] >> ],
      [ name |-> "internet_speed",
        responses |->
          << [ content |-> "Run a speed test",
               keywords |-> <<"slow speed", "speed test">>,
               type |-> "kb_exact" ] >> ],
      [ name |-> "equipment",
        responses |->
          << [ content |-> "Plug in the gateway",
               keywords |-> <<"gateway", "modem">>,
               type |-> "kb_exact" ],
             [ content |-> "Go to the app to activate the modem",
               keywords |-> <<"modem setup", "new modem">>,
               type |-> "kb_exact" ] >> ] }

\* the categories of an agent: some of SearchCategories, in some order
SearchCorpora ==
    { cats \in UNION {[1..n -> SearchCategories] : n \in 1..Cardinality(SearchCategories)} :
        \A i, j \in DOMAIN cats : i # j => cats[i] # cats[j] }

SearchMsgs ==
    { "internet outage",
      "Internet speed?",
      "equipment",
      "new modem gateway",
      "my modem is slow",
      "hello",
      "",
      "  ",
      "?!" }

SearchInit ==
    /\ kb = "corpus"
    /\ llm_available = TRUE
    /\ conversation_contexts = [c \in ConvIds |-> NoContext]
    /\ conversations = {}
    /\ chain_tone = [c \in ConvIds |-> NONE]
    /\ NoTasks
    /\ RateLimiter
    /\ response = NoMetrics
    /\ turn = NoTurn
    /\ last_context = [c \in ConvIds |-> NoContext]
    /\ turns = 0
    /\ ConversationMetricsCollector
    /\ NoConnections
    /\ call \in [ fn : {NONE}, agent_kb : SearchCorpora, message : SearchMsgs,
                  result : {NONE} ]

call_search_agent_kb ==
    Called("search_agent_kb", search_agent_kb(call.agent_kb, call.message))

\* the category names of the agent that match the message
call_category_name_match ==
    Called("category_name_match",
           {i \in DOMAIN call.agent_kb :
                category_name_match(call.agent_kb[i].name, call.message)})

SearchNext ==
    \/ call_search_agent_kb
    \/ call_category_name_match

SpecSearch == SearchInit /\ [][SearchNext]_vars

(***************************************************************************)
(* The knowledge base file and the two constructors that read it.  The     *)
(* file is missing, is not JSON (malformed), holds no agent (empty), or    *)
(* holds the corpus.                                                       *)
(***************************************************************************)
KBFiles == {"missing", "malformed", "empty", "corpus"}

\* ChatService.__init__ reading the file: only FileNotFoundError is caught
ChatService_load_kb(kb_file) ==
    IF kb_file = "missing" THEN [raised |-> FALSE, kb |-> "empty"]
    ELSE IF kb_file = "malformed" THEN [raised |-> TRUE, kb |-> NONE]
    ELSE [raised |-> FALSE, kb |-> kb_file]

\* the entry that _load_and_embed appends for a response of a category; the
\* corpus gives no id and no title
loaded_response(agent, category, resp) ==
    [ agent |-> agent,
      category |-> category,
      content |-> resp.content,
      keywords |-> resp.keywords,
      type |-> IF resp.type = NONE THEN "" ELSE resp.type,
      id |-> "",
      title |-> category ]

\* the entries of the categories cats[i..] of an agent, in order
RECURSIVE load_categories(_, _, _)
load_categories(agent, cats, i) ==
    IF i > Len(cats) THEN << >>
    ELSE [j \in 1..Len(cats[i].responses) |->
              loaded_response(agent, cats[i].name, cats[i].responses[j])]
         \o load_categories(agent, cats, i + 1)

\* the entries of the agents Agents[i..], in order
RECURSIVE load_agents(_, _)
load_agents(agents, i) ==
    IF i > Len(Agents) THEN << >>
    ELSE load_categories(Agents[i], agents[Agents[i]], 1) \o load_agents(agents, i + 1)

\* self.responses after _load_and_embed
loaded_responses_of ==
    Table([k \in DOMAIN KnowledgeBases |-> load_agents(KnowledgeBases[k], 1)])

\* SemanticKnowledgeBase(): open and json.load are not guarded; with no text
\* to encode the embeddings have no second dimension unless the encoder
\* returns a two-dimensional empty array (encode_empty_2d)
SemanticKnowledgeBase(kb_file, encode_empty_2d) ==
    IF kb_file \in {"missing", "malformed"}
    THEN [raised |-> TRUE, responses |-> << >>]
    ELSE IF Len(loaded_responses_of[kb_file]) = 0 /\ ~encode_empty_2d
    THEN [raised |-> TRUE, responses |-> << >>]
    ELSE [raised |-> FALSE, responses |-> loaded_responses_of[kb_file]]

(***************************************************************************)
(* The index.  The similarity of the query to the entries is what the      *)
(* encoder gives: scores[i], in hundredths, for entry i, no two equal.     *)
(* Labels are the 0-based positions of the entries.                        *)
(***************************************************************************)
\* the score of a slot for which the index has no entry (label -1)
no_result_score == -1000000

\* the entry with exactly r - 1 entries above it
nth_best(scores, r) ==
    CHOOSE i \in DOMAIN scores :
        Cardinality({j \in DOMAIN scores : scores[j] > scores[i]}) = r - 1

\* self.index.search(query_emb, top_k): top_k slots, best first
index_search(scores, top_k) ==
    [ r \in 1..top_k |->
        IF r <= Len(scores)
        THEN [score |-> scores[nth_best(scores, r)], idx |-> nth_best(scores, r) - 1]
        ELSE [score |-> no_result_score, idx |-> -1] ]

\* list[idx] of Python: a negative idx counts from the end
in_range(list, idx) == -Len(list) <= idx /\ idx < Len(list)

getitem(list, idx) == IF idx < 0 THEN list[Len(list) + idx + 1] ELSE list[idx + 1]

\* semantic_search: slot is the position in the results
semantic_search(skb, scores, top_k) ==
    With(index_search(scores, top_k), LAMBDA found :
    IF \E r \in 1..top_k : ~in_range(skb.responses, found[r].idx)
    THEN [raised |-> TRUE, results |-> << >>]
    ELSE [ raised |-> FALSE,
           results |-> [ r \in 1..top_k |->
                           [ response |-> getitem(skb.responses, found[r].idx),
                             semantic_score |-> found[r].score,
                             slot |-> r ] ] ])

(***************************************************************************)
(* hybrid_search.  The fuzzy keyword score of an entry for the query is    *)
(* what token_set_ratio gives: keyword_scores[i], in hundredths, for entry *)
(* i.  alpha is in tenths, so the hybrid score is in thousandths.  A       *)
(* filter is [key, list, v]: v is the list of tags when list is TRUE,     *)
(* else <<value>> for a scalar value.  keywords is the only field of an    *)
(* entry that is a list.                                                   *)
(***************************************************************************)
is_list_field(key) == key = "keywords"

\* tag in resp.get(key, []): membership in a list, substring of a string
tag_in(tag, resp, key) ==
    IF is_list_field(key)
    THEN \E k \in 1..Len(resp[key]) : resp[key][k] = tag
    ELSE contains(resp[key], tag)

\* one round of the loop over filters.items(): the filter does not reject resp
filter_passes(resp, f) ==
    IF f.key \notin DOMAIN resp THEN FALSE
    ELSE IF f.list THEN \E t \in 1..Len(f.v) : tag_in(f.v[t], resp, f.key)
    ELSE ~is_list_field(f.key) /\ resp[f.key] = f.v[1]

\* passed, after the loop; filters is the sequence of the items of the dict,
\* << >> for None and for {}
passed(resp, filters) ==
    \A n \in 1..Len(filters) : filter_passes(resp, filters[n])

\* the loop over ranking_boosts.items(): resp.get(meta_key) is a number for no
\* field of an entry, so the score is left as it is
boosted(score, resp, ranking_boosts) == score

\* the label of the entry of a result: keyword_score is a function of the query
\* and the entry
entry_of(skb, r) == CHOOSE i \in 1..Len(skb.responses) : skb.responses[i] = r.response

scored(skb, r, keyword_scores, alpha, ranking_boosts) ==
    [ response |-> r.response,
      semantic_score |-> r.semantic_score,
      keyword_score |-> keyword_scores[entry_of(skb, r)],
      hybrid_score |->
          boosted(alpha * r.semantic_score
                  + (10 - alpha) * keyword_scores[entry_of(skb, r)],
                  r.response, ranking_boosts),
      slot |-> r.slot ]

\* filtered_results: the results that pass, in order, scored
RECURSIVE filter_results(_, _, _, _, _, _, _)
filter_results(skb, sem_results, i, keyword_scores, alpha, filters, ranking_boosts) ==
    IF i > Len(sem_results) THEN << >>
    ELSE (IF passed(sem_results[i].response, filters)
          THEN <<scored(skb, sem_results[i], keyword_scores, alpha, ranking_boosts)>>
          ELSE << >>)
         \o filter_results(skb, sem_results, i + 1, keyword_scores, alpha, filters,
                           ranking_boosts)

\* the place of element i after list.sort(key = hybrid_score, reverse = True):
\* the sort is stable
sorted_place(list, i) ==
    1 + Cardinality({j \in 1..Len(list) : list[j].hybrid_score > list[i].hybrid_score})
      + Cardinality({j \in 1..(i - 1) : list[j].hybrid_score = list[i].hybrid_score})

sort_reverse(list) ==
    [p \in 1..Len(list) |-> list[CHOOSE i \in 1..Len(list) : sorted_place(list, i) = p]]

\* list[:top_k]
first(list, top_k) == SubSeq(list, 1, Min(top_k, Len(list)))

hybrid_search(skb, scores, keyword_scores, top_k, alpha, filters, ranking_boosts) ==
    With(semantic_search(skb, scores, top_k * 4), LAMBDA sem :
    IF sem.raised THEN [raised |-> TRUE, results |-> << >>]
    ELSE [ raised |-> FALSE,
           results |->
               first(sort_reverse(filter_results(skb, sem.results, 1, keyword_scores,
                                                 alpha, filters, ranking_boosts)),
                     top_k) ])

(***************************************************************************)
(* The constructors and the searches called directly, for each content of  *)
(* the knowledge base file: the chat service is constructed and processes  *)
(* one message, the semantic knowledge base is constructed and searched.   *)
(***************************************************************************)
MaxTopK == 2

\* the similarities of a query to the six entries of the corpus
SimilarityScores ==
    { <<90, 80, 70, 60, 50, 40>>,
      <<40, 50, 60, 70, 80, 90>>,
      <<60, 90, 40, 80, 50, 70>> }

\* the fuzzy keyword scores of a query for the six entries
KeywordScores ==
    { <<0, 0, 0, 0, 0, 0>>,
      <<100, 50, 100, 50, 0, 100>>,
      <<50, 50, 100, 0, 100, 0>> }

\* the similarities of the entries that were loaded
loaded_scores(skb, scores) == SubSeq(scores, 1, Len(skb.responses))

LoadMsgs == {"my internet is down", "why is my bill so high", "hello there"}

LoadEnvs == {env \in Envs : env.route.intent \in {"", "billing"}}

LoadInit ==
    /\ kb = "corpus"
    /\ llm_available = TRUE
    /\ conversation_contexts = [c \in ConvIds |-> NoContext]
    /\ conversations = {}
    /\ chain_tone = [c \in ConvIds |-> NONE]
    /\ NoTasks
    /\ RateLimiter
    /\ response = NoMetrics
    /\ turn = NoTurn
    /\ last_context = [c \in ConvIds |-> NoContext]
    /\ turns = 0
    /\ ConversationMetricsCollector
    /\ NoConnections
    /\ call \in [ fn : {NONE}, kb_file : KBFiles, encode_empty_2d : BOOLEAN,
                  llm_available : BOOLEAN, message : LoadMsgs, env : LoadEnvs,
                  scores : SimilarityScores, keyword_scores : KeywordScores,
                  top_k : 1..MaxTopK, result : {NONE} ]

\* ChatService() and then process_message on the new service
load_and_process_message ==
    \E loaded \in {ChatService_load_kb(call.kb_file)} :
        Called("process_message",
               IF loaded.raised THEN [raised |-> TRUE]
               ELSE With(process_message(
                             [ conversation_contexts |-> [c \in ConvIds |-> NoContext],
                               conversations |-> {},
                               kb |-> loaded.kb,
                               llm_available |-> call.llm_available ],
                             "c1", call.message, call.env), LAMBDA r :
                    [ raised |-> FALSE, kb |-> loaded.kb,
                      response |-> r.response, turn |-> r.turn ]))

\* SemanticKnowledgeBase() and then semantic_search on it
load_and_semantic_search ==
    \E skb \in {SemanticKnowledgeBase(call.kb_file, call.encode_empty_2d)} :
        Called("semantic_search",
               IF skb.raised THEN [raised |-> TRUE, results |-> << >>]
               ELSE semantic_search(skb, loaded_scores(skb, call.scores), call.top_k))

\* SemanticKnowledgeBase() and then hybrid_search on it with its defaults
load_and_hybrid_search ==
    \E skb \in {SemanticKnowledgeBase(call.kb_file, call.encode_empty_2d)} :
        Called("hybrid_search",
               IF skb.raised THEN [raised |-> TRUE, results |-> << >>]
               ELSE hybrid_search(skb, loaded_scores(skb, call.scores),
                                  call.keyword_scores, call.top_k, 7, << >>, << >>))

LoadNext ==
    \/ load_and_process_message
    \/ load_and_semantic_search
    \/ load_and_hybrid_search

SpecLoad == LoadInit /\ [][LoadNext]_vars

(***************************************************************************)
(* hybrid_search called directly on the knowledge base of the corpus.      *)
(***************************************************************************)
\* alpha, in tenths
Alphas == {0, 7, 10}

HybridFilters ==
    { << >>,
      <<[key |-> "agent", list |-> FALSE, v |-> <<"tech_support">>]>>,
      <<[key |-> "keywords", list |-> TRUE, v |-> <<"modem setup", "bill">>]>>,
      <<[key |-> "category", list |-> TRUE, v |-> <<"internet">>]>>,
      <<[key |-> "keywords", list |-> FALSE, v |-> <<"gateway">>]>>,
      <<[key |-> "difficulty_level", list |-> FALSE, v |-> <<"beginner">>]>>,
      <<[key |-> "agent", list |-> FALSE, v |-> <<"general">>],
        [key |-> "keywords", list |-> TRUE, v |-> <<"hours", "down">>]>> }

\* ranking_boosts, the boost in tenths
RankingBoosts == {<< >>, <<[key |-> "popularity_score", boost |-> 12]>>}

CorpusSKB == SemanticKnowledgeBase("corpus", FALSE)

HybridInit ==
    /\ kb = "corpus"
    /\ llm_available = TRUE
    /\ conversation_contexts = [c \in ConvIds |-> NoContext]
    /\ conversations = {}
    /\ chain_tone = [c \in ConvIds |-> NONE]
    /\ NoTasks
    /\ RateLimiter
    /\ response = NoMetrics
    /\ turn = NoTurn
    /\ last_context = [c \in ConvIds |-> NoContext]
    /\ turns = 0
    /\ ConversationMetricsCollector
    /\ NoConnections
    /\ call \in [ fn : {NONE}, scores : SimilarityScores,
                  keyword_scores : KeywordScores, top_k : 1..MaxTopK,
                  alpha : Alphas, filters : HybridFilters,
                  ranking_boosts : RankingBoosts, result : {NONE} ]

\* the oversample that hybrid_search asks for
call_oversample ==
    Called("semantic_search", semantic_search(CorpusSKB, call.scores, call.top_k * 4))

call_hybrid_search ==
    Called("hybrid_search",
           hybrid_search(CorpusSKB, call.scores, call.keyword_scores, call.top_k,
                         call.alpha, call.filters, call.ranking_boosts))

HybridNext ==
    \/ call_oversample
    \/ call_hybrid_search

SpecHybrid == HybridInit /\ [][HybridNext]_vars

(***************************************************************************)
(* The metrics collector called directly while time passes.  call is the   *)
(* last call, [fn |-> NONE] once time has passed since.                    *)
(***************************************************************************)
MaxHours == 216

MaxTracked == 2

\* the steps of the clock, in hours
ClockSteps == {24, RetentionHours}

\* interaction_data: the conversation_metrics of a response
InteractionData ==
    { [ processing_time_ms |-> ProcessingTimeMs, is_follow_up |-> FALSE,
        frustration_level |-> f[1], attempt_count |-> f[2],
        conversation_state |-> PROBLEM_SOLVING, tone_used |-> "helpful_friendly" ] :
      f \in {<<0, 1>>, <<2, 3>>, <<4, 3>>, <<5, 1>>, <<7, 1>>, <<0, 4>>} }

WindowHours == {DefaultWindowHours, 48}

MetricsInit ==
    /\ kb = "corpus"
    /\ llm_available = TRUE
    /\ conversation_contexts = [c \in ConvIds |-> NoContext]
    /\ conversations = {}
    /\ chain_tone = [c \in ConvIds |-> NONE]
    /\ NoTasks
    /\ RateLimiter
    /\ response = NoMetrics
    /\ turn = NoTurn
    /\ last_context = [c \in ConvIds |-> NoContext]
    /\ turns = 0
    /\ ConversationMetricsCollector
    /\ NoConnections
    /\ call = [fn |-> NONE]

\* time passes
tick(hours) ==
    /\ now + hours <= MaxHours
    /\ now' = now + hours
    /\ call' = [fn |-> NONE]
    /\ UNCHANGED << kb, llm_available, task_vars, request_counts,
                    conversation_contexts, chain_vars, response, turn,
                    last_context, turns, metrics, connection_vars >>

\* metrics_collector.track_conversation_quality(conversation_id, interaction_data)
call_track_conversation_quality(conversation_id, interaction_data) ==
    /\ Len(metrics) < 6 * MaxTracked
    /\ metrics' = track_conversation_quality(metrics, now, conversation_id,
                                             interaction_data)
    /\ call' = [ fn |-> "track_conversation_quality",
                 conversation_id |-> conversation_id,
                 interaction_data |-> interaction_data,
                 metrics_before |-> metrics ]
    /\ UNCHANGED << kb, llm_available, task_vars, request_counts,
                    conversation_contexts, chain_vars, response, turn,
                    last_context, turns, now, connection_vars >>

\* a call that reads the metrics
Read(fn, args, result) ==
    /\ call' = [fn |-> fn, args |-> args, result |-> result]
    /\ UNCHANGED << kb, llm_available, task_vars, request_counts,
                    conversation_contexts, chain_vars, response, turn,
                    last_context, turns, collector_vars, connection_vars >>

call_calculate_intent_resolution_rate(time_window_hours) ==
    Read("calculate_intent_resolution_rate", time_window_hours,
         calculate_intent_resolution_rate(metrics, now, time_window_hours))

call_get_conversation_insights(conversation_id) ==
    Read("get_conversation_insights", conversation_id,
         get_conversation_insights(metrics, conversation_id))

MetricsNext ==
    \/ \E hours \in ClockSteps : tick(hours)
    \/ \E c \in ConvIds, d \in InteractionData : call_track_conversation_quality(c, d)
    \/ \E w \in WindowHours : call_calculate_intent_resolution_rate(w)
    \/ \E c \in ConvIds : call_get_conversation_insights(c)

SpecMetrics == MetricsInit /\ [][MetricsNext]_vars

(***************************************************************************)
(* The WebSocket sessions, from the connection of a client to the end of   *)
(* its handler.  A send to the client succeeds or fails (sent); what the   *)
(* handler finds in an iteration of its loop is an event.                  *)
(***************************************************************************)
SessionMsgs == {"my internet is down", "that didn't work"}

SessionEnvs ==
    { env \in Envs : /\ ~env.chain_raises
                     /\ env.route.intent = "general"
                     /\ env.llm.text \in TurnAnswers \cup {"Connection timed out"} }

\* what an iteration of the loop finds, the chat message apart: the socket is
\* not open; receive_json raises WebSocketDisconnect or an error that names a
\* disconnect; it raises another error; it returns a pong, a ping, or data
\* without content
LoopEvents == {"not_open", "disconnect", "error", "pong", "ping", "invalid"}

SessionInit ==
    /\ kb = "corpus"
    /\ llm_available = TRUE
    /\ conversation_contexts = [c \in ConvIds |-> NoContext]
    /\ conversations = {}
    /\ chain_tone = [c \in ConvIds |-> NONE]
    /\ NoTasks
    /\ RateLimiter
    /\ response = NoMetrics
    /\ turn = NoTurn
    /\ last_context = [c \in ConvIds |-> NoContext]
    /\ turns = 0
    /\ ConversationMetricsCollector
    /\ NoConnections
    /\ call = NoCall

\* the handler of the client is not waiting for the response of a turn to be sent
at_loop_head(client_id) ==
    /\ session[client_id] = "loop"
    /\ turn = NoTurn

\* websocket_endpoint up to the loop: the client is registered, the heartbeat
\* task is created, the welcome message is sent
websocket_connect(client_id, sent) ==
    /\ session[client_id] = "none"
    /\ active_connections' = 
           send_json(connect(active_connections, client_id, client_id), client_id, sent)
    /\ heartbeat_task' = [heartbeat_task EXCEPT ![client_id] = "running"]
    /\ session' = [session EXCEPT ![client_id] = "loop"]
    /\ UNCHANGED << kb, llm_available, task_vars, request_counts,
                    conversation_contexts, chain_vars, response, turn,
                    last_context, turns, call, collector_vars >>

\* the loop condition fails: the handler leaves the loop and returns
websocket_loop_exit(client_id) ==
    /\ at_loop_head(client_id)
    /\ client_id \notin DOMAIN active_connections
    /\ session' = [session EXCEPT ![client_id] = "returned"]
    /\ UNCHANGED << kb, llm_available, task_vars, request_counts,
                    conversation_contexts, chain_vars, response, turn,
                    last_context, turns, call, collector_vars,
                    active_connections, heartbeat_task >>

\* an iteration of the loop that processes no chat message: break when the
\* socket is not open or the client has disconnected; a pong to a ping, and the
\* error message after another error, are sent with send_personal_message
websocket_receive(client_id, event, sent) ==
    /\ at_loop_head(client_id)
    /\ client_id \in DOMAIN active_connections
    /\ session' = [session EXCEPT ![client_id] =
                       IF event \in {"not_open", "disconnect"} THEN "returned" ELSE @]
    /\ active_connections' =
           IF event \in {"ping", "error"}
           THEN send_json(active_connections, client_id, sent)
           ELSE active_connections
    /\ UNCHANGED << kb, llm_available, task_vars, request_counts,
                    conversation_contexts, chain_vars, response, turn,
                    last_context, turns, call, collector_vars,
                    heartbeat_task >>

\* task.cancel(): a task that has ended stays as it is
cancel(task) == IF task = "running" THEN "cancelled" ELSE task

\* an exception reaches the outer except of the handler: the heartbeat task is
\* cancelled and the client disconnected
websocket_failure(client_id) ==
    /\ at_loop_head(client_id)
    /\ heartbeat_task' = [heartbeat_task EXCEPT ![client_id] = cancel(@)]
    /\ active_connections' = disconnect(active_connections, client_id)
    /\ session' = [session EXCEPT ![client_id] = "failed"]
    /\ UNCHANGED << kb, llm_available, task_vars, request_counts,
                    conversation_contexts, chain_vars, response, turn,
                    last_context, turns, call, collector_vars >>

\* send_periodic_heartbeat, after a sleep: the task ends when the client is no
\* longer registered or the ping cannot be sent
send_periodic_heartbeat(client_id, sent) ==
    /\ heartbeat_task[client_id] = "running"
    /\ heartbeat_task' = [heartbeat_task EXCEPT ![client_id] =
                              IF client_id \in DOMAIN active_connections /\ sent
                              THEN "running" ELSE "finished"]
    /\ active_connections' = send_json(active_connections, client_id, sent)
    /\ UNCHANGED << kb, llm_available, task_vars, request_counts,
                    conversation_contexts, chain_vars, response, turn,
                    last_context, turns, call, collector_vars, session >>

SessionNext ==
    \/ \E c \in ConvIds, sent \in BOOLEAN : websocket_connect(c, sent)
    \/ \E c \in ConvIds : websocket_loop_exit(c)
    \/ \E c \in ConvIds, event \in LoopEvents, sent \in BOOLEAN :
           websocket_receive(c, event, sent)
    \/ \E c \in ConvIds, m \in SessionMsgs, env \in SessionEnvs :
           websocket_endpoint(c, m, env)
    \/ \E sent \in BOOLEAN : send_response(sent)
    \/ \E c \in ConvIds : websocket_failure(c)
    \/ \E c \in ConvIds, sent \in BOOLEAN : send_periodic_heartbeat(c, sent)

SpecSession == SessionInit /\ [][SessionNext]_vars

(***************************************************************************)
(* The turns of different conversations interleaved on one service.        *)
(* coordinator is suspended where its handler awaits (the classification   *)
(* of the intent, the completion of the model); what comes before and      *)
(* after runs without suspension.                                          *)
(***************************************************************************)
MaxInterleavedTurns == 4

\* the service with the context and the chain of one conversation only
alone_service(context, has_chain, conversation_id) ==
    [ conversation_contexts |->
          [c \in ConvIds |-> IF c = conversation_id THEN context ELSE NoContext],
      conversations |-> IF has_chain THEN {conversation_id} ELSE {},
      kb |-> kb,
      llm_available |-> llm_available ]

InterleaveInit ==
    /\ kb = "corpus"
    /\ llm_available \in BOOLEAN
    /\ conversation_contexts = [c \in ConvIds |-> NoContext]
    /\ conversations = {}
    /\ chain_tone = [c \in ConvIds |-> NONE]
    /\ NoTasks
    /\ RateLimiter
    /\ response = NoMetrics
    /\ turn = NoTurn
    /\ last_context = [c \in ConvIds |-> NoContext]
    /\ turns = 0
    /\ ConversationMetricsCollector
    /\ NoConnections
    /\ call = NoCall

\* coordinator up to the await of its handler: the context is fetched or
\* created and the message is tested for a follow-up
coordinator_begin(conversation_id, message) ==
    /\ turns < MaxInterleavedTurns
    /\ coroutines[conversation_id].at \in {"none", "returned"}
    /\ conversation_contexts' =
           get_or_create_context(conversation_contexts, conversation_id, conversation_id)
    /\ coroutines' =
           [coroutines EXCEPT ![conversation_id] =
                [ at |-> "handler",
                  message |-> message,
                  is_follow_up |->
                      detect_follow_up(message, conversation_contexts'[conversation_id]),
                  context_read |-> conversation_contexts'[conversation_id],
                  context_before |-> conversation_contexts[conversation_id],
                  chain_before |-> conversation_id \in conversations ]]
    /\ turns' = turns + 1
    /\ UNCHANGED << kb, llm_available, chain_vars, response, turn,
                    last_context, call, collector_vars, connection_vars,
                    sends, request_counts >>

\* coordinator from the return of its handler: the context is updated and the
\* response completed.  alone is the context that the turn leaves when it
\* runs on a service that holds nothing of another conversation
coordinator_finish(conversation_id, env) ==
    /\ coroutines[conversation_id].at = "handler"
    /\ \E co \in {coroutines[conversation_id]},
          svc \in {[ conversation_contexts |-> conversation_contexts,
                     conversations |-> conversations,
                     kb |-> kb,
                     llm_available |-> llm_available ]} :
       \E r \in { coordinator_return(
                      svc, conversation_id, co.message, conversation_contexts,
                      co.is_follow_up,
                      IF co.is_follow_up
                      THEN handle_follow_up(svc, conversation_id, co.message,
                                            conversation_contexts[conversation_id], env)
                      ELSE handle_regular_message(
                               svc, conversation_id, co.message,
                               conversation_contexts[conversation_id], env)) } :
           /\ asked_only(env, r.turn.asked)
           /\ conversation_contexts' = r.svc.conversation_contexts
           /\ conversations' = r.svc.conversations
           /\ chain_tone' = chain_tone_after(chain_tone, conversations,
                                             r.svc.conversations, conversation_id,
                                             co.context_read.preferred_tone)
           /\ response' = r.response
           /\ turn' = r.turn
           /\ last_context' = [last_context EXCEPT ![conversation_id] = co.context_read]
           /\ coroutines' =
                  [coroutines EXCEPT ![conversation_id] =
                       [ at |-> "returned",
                         message |-> co.message,
                         is_follow_up |-> co.is_follow_up,
                         context_read |-> co.context_read,
                         context_before |-> co.context_before,
                         chain_before |-> co.chain_before,
                         alone |->
                             process_message(
                                 alone_service(co.context_before, co.chain_before,
                                               conversation_id),
                                 conversation_id, co.message, env
                             ).svc.conversation_contexts[conversation_id] ]]
    /\ UNCHANGED << kb, llm_available, turns, call, collector_vars,
                    connection_vars, sends, request_counts >>

InterleaveNext ==
    \/ \E c \in ConvIds, m \in SessionMsgs : coordinator_begin(c, m)
    \/ \E c \in ConvIds, env \in SessionEnvs : coordinator_finish(c, env)

SpecInterleave == InterleaveInit /\ [][InterleaveNext]_vars

(***************************************************************************)
(* Connections under one client ID.  Every connection has a socket, a      *)
(* handler and a heartbeat task of its own; active_connections holds one   *)
(* socket per client ID.  A send is suspended in websocket.send_json       *)
(* between the look-up of the socket and its outcome; a handler is         *)
(* suspended in receive_json and while it processes a message.  call is    *)
(* the last step: what was done, and on which socket.                      *)
(***************************************************************************)
Sockets == {"w1", "w2"}

\* the client ID in the path of the connection
client_of(websocket) == "c1"

ReconnectInit ==
    /\ kb = "corpus"
    /\ llm_available = TRUE
    /\ conversation_contexts = [c \in ConvIds |-> NoContext]
    /\ conversations = {}
    /\ chain_tone = [c \in ConvIds |-> NONE]
    /\ NoTasks
    /\ RateLimiter
    /\ response = NoMetrics
    /\ turn = NoTurn
    /\ last_context = [c \in ConvIds |-> NoContext]
    /\ turns = 0
    /\ ConversationMetricsCollector
    /\ active_connections = NoSockets
    /\ session = [w \in Sockets |-> "none"]
    /\ heartbeat_task = [w \in Sockets |-> "none"]
    /\ call = [fn |-> NONE, websocket |-> NONE]

\* the service and the collector take no part in these steps
reconnect_frame ==
    UNCHANGED << kb, llm_available, conversation_contexts, chain_vars, coroutines,
                 request_counts, response, turn, last_context, turns,
                 collector_vars >>

\* send_personal_message and send_heartbeat up to the await of send_json: the
\* socket registered for the client is looked up; the sends in flight afterwards
begin_send(in_flight, connections, websocket, task) ==
    IF client_of(websocket) \in DOMAIN connections
    THEN in_flight \cup {[ by |-> websocket, task |-> task,
                           websocket |-> connections[client_of(websocket)] ]}
    ELSE in_flight

\* websocket_endpoint up to the await in its welcome message: the socket is
\* registered under the client ID, the heartbeat task is created, the welcome
\* message is on its way
connect_endpoint(websocket) ==
    /\ session[websocket] = "none"
    /\ active_connections' = connect(active_connections, websocket, client_of(websocket))
    /\ heartbeat_task' = [heartbeat_task EXCEPT ![websocket] = "running"]
    /\ sends' = begin_send(sends, active_connections', websocket, "handler")
    /\ session' = [session EXCEPT ![websocket] = "sending"]
    /\ call' = [fn |-> "connect", websocket |-> websocket]
    /\ reconnect_frame

\* the loop condition fails: the handler leaves the loop and returns
handler_loop_exit(websocket) ==
    /\ session[websocket] = "loop"
    /\ client_of(websocket) \notin DOMAIN active_connections
    /\ session' = [session EXCEPT ![websocket] = "returned"]
    /\ call' = [fn |-> "loop_exit", websocket |-> websocket]
    /\ UNCHANGED << active_connections, heartbeat_task, sends >>
    /\ reconnect_frame

\* an iteration of the loop up to its next await: break when the socket is not
\* open or the client has disconnected; nothing to answer for a pong or a
\* message without content; otherwise (a ping, a chat message, another error)
\* there is an answer to send
handler_receive(websocket, event) ==
    /\ session[websocket] = "loop"
    /\ client_of(websocket) \in DOMAIN active_connections
    /\ session' = [session EXCEPT ![websocket] =
                       IF event \in {"not_open", "disconnect"} THEN "returned"
                       ELSE IF event \in {"pong", "invalid"} THEN "loop"
                       ELSE "respond"]
    /\ call' = [fn |-> event, websocket |-> websocket]
    /\ UNCHANGED << active_connections, heartbeat_task, sends >>
    /\ reconnect_frame

\* the handler calls send_personal_message with its answer
handler_send(websocket) ==
    /\ session[websocket] = "respond"
    /\ sends' = begin_send(sends, active_connections, websocket, "handler")
    /\ session' = [session EXCEPT ![websocket] =
                       IF sends' # sends THEN "sending" ELSE "loop"]
    /\ call' = [fn |-> "send", websocket |-> websocket]
    /\ UNCHANGED << active_connections, heartbeat_task >>
    /\ reconnect_frame

\* send_periodic_heartbeat after its sleep: it ends when the client is not
\* registered, and calls send_heartbeat otherwise
heartbeat_wake(websocket) ==
    /\ heartbeat_task[websocket] = "running"
    /\ sends' = begin_send(sends, active_connections, websocket, "heartbeat")
    /\ heartbeat_task' = [heartbeat_task EXCEPT ![websocket] =
                              IF sends' # sends THEN "sending" ELSE "finished"]
    /\ call' = [fn |-> "heartbeat", websocket |-> websocket]
    /\ UNCHANGED << active_connections, session >>
    /\ reconnect_frame

\* send_json returns or raises: a send that fails is caught and
\* disconnect(client_id) called; the handler goes on with its loop, the
\* heartbeat task goes on after a ping sent and ends after one that failed
finish_send(send, sent) ==
    /\ send \in sends
    /\ sends' = sends \ {send}
    /\ active_connections' =
           IF sent THEN active_connections
           ELSE disconnect(active_connections, client_of(send.by))
    /\ session' = IF send.task = "handler"
                  THEN [session EXCEPT ![send.by] = "loop"]
                  ELSE session
    /\ heartbeat_task' =
           IF send.task = "heartbeat"
           THEN [heartbeat_task EXCEPT ![send.by] = IF sent THEN "running" ELSE "finished"]
           ELSE heartbeat_task
    /\ call' = [fn |-> IF sent THEN "sent" ELSE "send_failed",
                websocket |-> send.websocket]
    /\ reconnect_frame

\* an exception reaches the outer except of the handler: the heartbeat task is
\* cancelled, with the ping it is sending, and the client disconnected
handler_failure(websocket) ==
    /\ session[websocket] = "loop"
    /\ heartbeat_task' = [heartbeat_task EXCEPT ![websocket] =
                              IF @ = "sending" THEN "cancelled" ELSE cancel(@)]
    /\ sends' = {s \in sends : ~(s.by = websocket /\ s.task = "heartbeat")}
    /\ active_connections' = disconnect(active_connections, client_of(websocket))
    /\ session' = [session EXCEPT ![websocket] = "failed"]
    /\ call' = [fn |-> "outer_except", websocket |-> websocket]
    /\ reconnect_frame

ReconnectNext ==
    \/ \E w \in Sockets : connect_endpoint(w)
    \/ \E w \in Sockets : handler_loop_exit(w)
    \/ \E w \in Sockets, event \in LoopEvents \cup {"message"} : handler_receive(w, event)
    \/ \E w \in Sockets : handler_send(w)
    \/ \E w \in Sockets : heartbeat_wake(w)
    \/ \E send \in sends, sent \in BOOLEAN : finish_send(send, sent)
    \/ \E w \in Sockets : handler_failure(w)

SpecReconnect == ReconnectInit /\ [][ReconnectNext]_vars

(***************************************************************************)
(* The rate-limit middleware.  now is time.time() in seconds.  call is the *)
(* last request, its status, and per IP the times of all the requests      *)
(* admitted so far and the number of those rejected.                       *)
(***************************************************************************)
\* the limit in force, int(os.getenv("RATE_LIMIT_PER_MINUTE", "60"))
RATE_LIMIT_PER_MINUTE == 3

WINDOW_SIZE == 60

MaxSeconds == 100

MaxRequests == 6

\* the clock read by two requests in a row advances by one of these
SecondsBetween == {20, 40}

\* "Clean up old requests"
clean_up(timestamps, current_time) ==
    SelectSeq(timestamps, LAMBDA timestamp : current_time - timestamp < WINDOW_SIZE)

\* the middleware recording also the requests it rejects
rate_limit_middleware_recording_rejected(counts, client_ip, current_time) ==
    [ status |-> IF Len(clean_up(counts[client_ip], current_time)) >= RATE_LIMIT_PER_MINUTE
                 THEN 429 ELSE 200,
      request_counts |->
          [counts EXCEPT ![client_ip] = Append(clean_up(@, current_time), current_time)] ]

\* rate_limit_middleware up to call_next: the status of the response when it is
\* 429 (200 stands for the response of call_next), and request_counts afterwards
rate_limit_middleware(counts, client_ip, current_time) ==
    IF Len(clean_up(counts[client_ip], current_time)) >= RATE_LIMIT_PER_MINUTE
    THEN [ status |-> 429,
           request_counts |->
               [counts EXCEPT ![client_ip] = clean_up(@, current_time)] ]
    ELSE [ status |-> 200,
           request_counts |->
               [counts EXCEPT ![client_ip] = Append(clean_up(@, current_time), current_time)] ]

RateInit ==
    /\ kb = "corpus"
    /\ llm_available = TRUE
    /\ conversation_contexts = [c \in ConvIds |-> NoContext]
    /\ conversations = {}
    /\ chain_tone = [c \in ConvIds |-> NONE]
    /\ NoTasks
    /\ RateLimiter
    /\ response = NoMetrics
    /\ turn = NoTurn
    /\ last_context = [c \in ConvIds |-> NoContext]
    /\ turns = 0
    /\ ConversationMetricsCollector
    /\ NoConnections
    /\ call = [ fn |-> NONE, client_ip |-> NONE, status |-> 0, requests |-> 0,
                admitted |-> [ip \in ClientIPs |-> << >>],
                rejected |-> [ip \in ClientIPs |-> 0] ]

\* time passes between two requests
seconds_pass(seconds) ==
    /\ now + seconds <= MaxSeconds
    /\ now' = now + seconds
    /\ call' = [call EXCEPT !.fn = NONE]
    /\ UNCHANGED << kb, llm_available, conversation_contexts, chain_vars,
                    task_vars, request_counts, response, turn, last_context,
                    turns, metrics, connection_vars >>

\* a request from client_ip goes through the middleware
request(client_ip) ==
    /\ call.requests < MaxRequests
    /\ \E r \in {rate_limit_middleware(request_counts, client_ip, now)} :
           /\ request_counts' = r.request_counts
           /\ call' = [ fn |-> "rate_limit_middleware",
                        client_ip |-> client_ip,
                        status |-> r.status,
                        requests |-> call.requests + 1,
                        admitted |->
                            IF r.status = 200
                            THEN [call.admitted EXCEPT ![client_ip] = Append(@, now)]
                            ELSE call.admitted,
                        rejected |->
                            IF r.status = 200
                            THEN call.rejected
                            ELSE [call.rejected EXCEPT ![client_ip] = @ + 1] ]
    /\ UNCHANGED << kb, llm_available, conversation_contexts, chain_vars,
                    task_vars, response, turn, last_context, turns,
                    collector_vars, connection_vars >>

RateNext ==
    \/ \E seconds \in SecondsBetween : seconds_pass(seconds)
    \/ \E ip \in ClientIPs : request(ip)

SpecRate == RateInit /\ [][RateNext]_vars

(***************************************************************************)
(* The properties.  A turn is in progress while turn # NoTurn: turn and    *)
(* response then describe it.                                              *)
(***************************************************************************)
\* the steps whose failure the handlers do not catch themselves
UnhandledSteps == {"follow_up", "retrieval"}

\* C1, as stated: whenever any step of the turn raises, the response has
\* answer_type error_fallback and intent_data confidence 0.0
C1_AnyFailureIsErrorFallback ==
    (turn # NoTurn /\ turn.raised_steps # {}) =>
        /\ response.answer_type = "error_fallback"
        /\ response.intent_data.confidence = 0

\* C1, amended: every turn returns a response; a failure that no handler
\* catches (constructing the conversation chain of a follow-up, reading a
\* knowledge response) gives error_fallback with confidence 0.0, and a
\* failing classification or completion, which the handlers catch, does not
C1_UnhandledFailureIsErrorFallback ==
    turn # NoTurn =>
        /\ response # NoMetrics
        /\ turn.raised_steps \cap UnhandledSteps # {} =>
               /\ response.answer_type = "error_fallback"
               /\ response.intent_data.confidence = 0
        /\ turn.raised_steps \cap UnhandledSteps = {} =>
               response.answer_type # "error_fallback"

\* C1: a turn in which reading the knowledge response raised, after the
\* classification had raised too
C1_Witness ==
    /\ turn # NoTurn
    /\ turn.raised_steps = {"classification", "retrieval"}
    /\ response.answer_type = "error_fallback"

\* C2: the frustration_level of every context, of the session's service and
\* of the service of a request, is an integer in [0,10]
C2_FrustrationInRange ==
    /\ \A c \in ConvIds :
           conversation_contexts[c] # NoContext =>
               conversation_contexts[c].frustration_level \in 0..10
    /\ \A c \in ConvIds :
           last_context[c] # NoContext => last_context[c].frustration_level \in 0..10
    /\ turn # NoTurn => turn.context_after.frustration_level \in 0..10

\* C2: a follow-up whose score exceeds 10 and is clamped
C2_Witness ==
    /\ turn # NoTurn
    /\ turn.is_follow_up
    /\ turn.context_read.frustration_level + message_frustration_of[turn.message] > 10
    /\ turn.context_after.frustration_level = 10

\* what C3 says of one step: a turn raises the attempt_count of its context by exactly 1 if
\* detect_follow_up(message, context) holds when update_context is called, and
\* leaves it unchanged otherwise; no context of the service is removed and no
\* attempt_count of the service decreases
C3_Step ==
    (turn = NoTurn /\ turn' # NoTurn) =>
        /\ turn'.context_after.attempt_count =
               turn'.context_read.attempt_count
                 + (IF /\ ~turn'.propagated
                       /\ detect_follow_up(turn'.message, turn'.context_read)
                    THEN 1 ELSE 0)
        /\ \A c \in ConvIds :
               conversation_contexts[c] # NoContext =>
                   /\ conversation_contexts'[c] # NoContext
                   /\ conversation_contexts'[c].attempt_count
                          >= conversation_contexts[c].attempt_count

\* C3: every step satisfies C3_Step
C3_AttemptCount == [][C3_Step]_vars

\* C3: the second follow-up of a conversation
C3_Witness ==
    /\ turn # NoTurn
    /\ turn.is_follow_up
    /\ turn.context_read.attempt_count = 1
    /\ turn.context_after.attempt_count = 2

\* what C4 says of one step: after every turn the frustration_level of the turn's context is at
\* least what it was before the turn, and no frustration_level of the service
\* decreases
C4_Step ==
    (turn = NoTurn /\ turn' # NoTurn) =>
        /\ turn'.context_after.frustration_level
               >= turn'.context_read.frustration_level
        /\ \A c \in ConvIds :
               conversation_contexts[c] # NoContext =>
                   /\ conversation_contexts'[c] # NoContext
                   /\ conversation_contexts'[c].frustration_level
                          >= conversation_contexts[c].frustration_level

\* C4: every step satisfies C4_Step
C4_FrustrationMonotone == [][C4_Step]_vars

\* C4: a follow-up that adds nothing after a frustrated one
C4_Witness ==
    /\ turn # NoTurn
    /\ turn.is_follow_up
    /\ message_frustration_of[turn.message] = 0
    /\ turn.context_read.frustration_level = 7
    /\ turn.context_after.frustration_level = 7

\* C5: a turn of a conversation ID that had a turn before reads the context
\* which that turn left
C5_SameContext ==
    (turn # NoTurn /\ turn.previous_context # NoContext) =>
        turn.context_read = turn.previous_context

\* the order in which the claim has the agents searched
FallbackOrder == <<"tech_support", "billing", "general">>

OtherThan(agent, a) == a # agent

ExpectedOrder(primary) == <<primary>> \o SelectSeq(FallbackOrder, LAMBDA a : OtherThan(primary, a))

IsPrefix(p, q) == Len(p) <= Len(q) /\ SubSeq(q, 1, Len(p)) = p

\* the search of the agent's knowledge for the message of the turn hits
Hit(agent) == search_agent_kb_of[kb][agent][turn.message].found

\* C6: in a regular turn the primary agent is searched first, then the other
\* agents in the order tech_support, billing, general, each at most once and
\* only after a miss; the search stops at the first hit, whose agent is the
\* agent_type of the response; the generative model is called only when all
\* three miss, and at most once
C6_TierOrder ==
    (turn # NoTurn /\ ~turn.is_follow_up) =>
        /\ turn.searched # << >>
        /\ IsPrefix(turn.searched, ExpectedOrder(turn.primary))
        /\ \A i \in 1..(Len(turn.searched) - 1) : ~Hit(turn.searched[i])
        /\ Hit(turn.searched[Len(turn.searched)]) =>
               /\ turn.llm_calls = 0
               /\ ~turn.propagated =>
                      response.agent_type = turn.searched[Len(turn.searched)]
        /\ ~Hit(turn.searched[Len(turn.searched)]) => Len(turn.searched) = 3
        /\ turn.llm_calls <= 1

\* C6: the primary agent misses and the next agent hits
C6_Witness ==
    /\ turn # NoTurn
    /\ ~turn.is_follow_up
    /\ turn.primary = "tech_support"
    /\ turn.searched = <<"tech_support", "billing">>
    /\ response.agent_type = "billing"

\* C7: every turn for which detect_follow_up is true returns answer_type
\* follow_up_response
C7_FollowUpResponse ==
    (turn # NoTurn /\ turn.is_follow_up) =>
        response.answer_type = "follow_up_response"

\* the errors of the completion that are rate-limit or quota errors
RateLimitErrors == {"Rate limit reached for requests", "Error code: 429"}

\* a regular turn in which the three searches miss
AllMiss ==
    /\ turn # NoTurn
    /\ ~turn.is_follow_up
    /\ Len(turn.searched) = 3
    /\ \A i \in 1..3 : ~Hit(turn.searched[i])

\* C8: in a regular turn in which the three searches miss, answer_type is
\* llm_generated exactly when the completion was called and succeeded; when it
\* fails, answer_type is kb_fallback and the answer is the topic-steering
\* apology for a rate-limit or quota error, the clarification request for any
\* other; answer_type is never error_fallback
C8_GenerativeTier ==
    AllMiss =>
        /\ response.answer_type = "llm_generated" <=>
               (turn.llm_calls = 1 /\ turn.llm_ok)
        /\ "completion" \in turn.raised_steps =>
               /\ response.answer_type = "kb_fallback"
               /\ response.answer =
                      IF turn.llm_error \in RateLimitErrors
                      THEN RateLimitAnswer ELSE ClarifyAnswer
        /\ response.answer_type # "error_fallback"

\* C8: the completion fails with a rate-limit error
C8_Witness ==
    /\ AllMiss
    /\ turn.llm_calls = 1
    /\ turn.llm_error = "Rate limit reached for requests"
    /\ response.answer = RateLimitAnswer

\* C9: determine_tone gives empathetic_escalation for a frustration_level of
\* at least 7; else empathetic_supportive for one of at least 4; else
\* patient_alternative for an attempt_count of at least 3; else
\* understanding_adaptive in state FOLLOW_UP; else helpful_friendly
C9_TonePrecedence ==
    call.fn = "determine_tone" =>
        /\ call.context.frustration_level >= 7 =>
               call.result = "empathetic_escalation"
        /\ call.context.frustration_level \in 4..6 =>
               call.result = "empathetic_supportive"
        /\ (call.context.frustration_level < 4 /\ call.context.attempt_count >= 3) =>
               call.result = "patient_alternative"
        /\ ( /\ call.context.frustration_level < 4
             /\ call.context.attempt_count < 3
             /\ call.context.current_state = FOLLOW_UP ) =>
               call.result = "understanding_adaptive"
        /\ ( /\ call.context.frustration_level < 4
             /\ call.context.attempt_count < 3
             /\ call.context.current_state # FOLLOW_UP ) =>
               call.result = "helpful_friendly"

\* C9: frustration 8, attempt_count 0, state INITIAL
C9_Witness ==
    /\ call.fn = "determine_tone"
    /\ call.context.frustration_level = 8
    /\ call.context.attempt_count = 0
    /\ call.context.current_state = INITIAL
    /\ call.result = "empathetic_escalation"

\* a pattern matches the message, the letters compared without regard to case
pattern_matches(patterns, message) ==
    \E k \in 1..Len(patterns) :
        \E p \in patterns[k] : contains(lower(message), lower(p))

follow_up_pattern_matches_of ==
    Table([m \in Msgs |-> pattern_matches(follow_up_patterns, m)])

\* C10: detect_follow_up(message, context) is true exactly when the message
\* matches one of the follow-up patterns, or the context is in state
\* PROBLEM_SOLVING with a last solution and the message has fewer than 10
\* whitespace-delimited tokens
C10_FollowUpExactly ==
    call.fn = "detect_follow_up" =>
        ( call.result <=>
              \/ follow_up_pattern_matches_of[call.message]
              \/ /\ call.context.current_state = PROBLEM_SOLVING
                 /\ truthy(call.context.last_solution_offered)
                 /\ split_count_of[call.message] < 10 )

\* C11: when update_context is called for a follow-up, the state afterwards
\* is FOLLOW_UP; if a solution had been offered before the call, exactly one
\* resolution attempt is appended, holding that earlier solution, outcome
\* "ineffective" and the message as user_feedback; if none had been offered,
\* resolution_attempts is unchanged
C11_FollowUpRecordsPrevious ==
    ( /\ call.fn = "update_context"
      /\ detect_follow_up(call.message, call.context) ) =>
        /\ call.result.current_state = FOLLOW_UP
        /\ truthy(call.context.last_solution_offered) =>
               call.result.resolution_attempts =
                   Append(call.context.resolution_attempts,
                          [ solution |-> call.context.last_solution_offered,
                            outcome |-> "ineffective",
                            user_feedback |-> call.message ])
        /\ ~truthy(call.context.last_solution_offered) =>
               call.result.resolution_attempts = call.context.resolution_attempts

\* C11: a follow-up after a solution, in a turn that offers another solution
C11_Witness ==
    /\ call.fn = "update_context"
    /\ call.message = "that didn't work"
    /\ call.context.last_solution_offered = SomeSolution
    /\ call.context.resolution_attempts = <<EarlierAttempt>>
    /\ call.solution_offered = NewSolution
    /\ Len(call.result.resolution_attempts) = 2
    /\ call.result.resolution_attempts[2].solution = SomeSolution
    /\ call.result.last_solution_offered = NewSolution

\* C12: when update_context is called for a message that is no follow-up, an
\* offered solution becomes last_solution_offered and the state becomes
\* PROBLEM_SOLVING; with no solution offered, state and last_solution_offered
\* stay as they were
C12_FreshTurnSolution ==
    ( /\ call.fn = "update_context"
      /\ ~detect_follow_up(call.message, call.context) ) =>
        /\ truthy(call.solution_offered) =>
               /\ call.result.last_solution_offered = call.solution_offered
               /\ call.result.current_state = PROBLEM_SOLVING
        /\ ~truthy(call.solution_offered) =>
               /\ call.result.last_solution_offered =
                      call.context.last_solution_offered
               /\ call.result.current_state = call.context.current_state

\* C12: a context in state FOLLOW_UP, a message that is no follow-up and no
\* solution offered
C12_Witness ==
    /\ call.fn = "update_context"
    /\ call.message = "what are your hours"
    /\ call.context.current_state = FOLLOW_UP
    /\ call.context.last_solution_offered = SomeSolution
    /\ call.solution_offered = ""
    /\ call.result.current_state = FOLLOW_UP
    /\ call.result.last_solution_offered = SomeSolution

\* C13: after every update_context call on an existing context, preferred_tone
\* is determine_tone of the context as the call leaves it
C13_ToneRecomputedLast ==
    call.fn = "update_context" =>
        call.result.preferred_tone = determine_tone(call.result)

\* C13: a call that moves the context from FOLLOW_UP to PROBLEM_SOLVING, which
\* changes the tone
C13_Witness ==
    /\ call.fn = "update_context"
    /\ call.context.current_state = FOLLOW_UP
    /\ determine_tone(call.context) = "understanding_adaptive"
    /\ call.result.current_state = PROBLEM_SOLVING
    /\ call.result.preferred_tone = "helpful_friendly"

\* C14: after five consecutive messages of one conversation that each match a
\* frustration indicator, the frustration_level of the context is exactly 10
C14_FiveFrustratedSaturate ==
    turns = 5 => conversation_contexts["c1"].frustration_level = 10

\* C14 holds when each of the five messages is also treated as a follow-up
C14_FiveFrustratedFollowUps ==
    ( /\ turns = 5
      /\ conversation_contexts["c1"].attempt_count = 5 ) =>
        conversation_contexts["c1"].frustration_level = 10

\* the reply of the model is an object with the fields intent, confidence and
\* keywords
well_formed(remote) ==
    /\ ~remote.raises
    /\ json_loads(remote.content).type = "dict"
    /\ {"intent", "confidence", "keywords"}
           \subseteq DOMAIN json_loads(remote.content).items

\* C15: classify_intent and route_message raise with neither service, and
\* when the remote call fails or its reply is not an object with the expected
\* fields, the classification of IntentService is intent "other", confidence
\* 0.0, no keywords
C15_ClassifyNeverRaises ==
    call.fn \in {"classify_intent", "route_message"} =>
        /\ ~call.result.raised
        /\ ( /\ call.intent_service = "IntentService"
             /\ ~well_formed(call.remote) ) =>
               IF call.fn = "classify_intent"
               THEN call.result.value = OtherIntent
               ELSE call.result.intent_data = OtherIntent

\* the intent that the classification of a route holds
classified_intent(intent_service, route) ==
    IF intent_service = "LocalIntentService" THEN route.intent_data.intent
    ELSE route.intent_data.items["intent"].text

\* C17: for every classified intent the agent searched first is tech_support
\* for technical_support and equipment, billing for billing, general for
\* every other intent
C17_RoutingMap ==
    (call.fn = "route_to_agent" /\ ~call.result.route.raised) =>
        call.result.step.agent =
            With(classified_intent(call.intent_service, call.result.route),
                 LAMBDA intent :
                 IF intent \in {"technical_support", "equipment"} THEN "tech_support"
                 ELSE IF intent = "billing" THEN "billing"
                 ELSE "general")

\* the score of C18 in tenths: 8 for each phrase, 3 for each keyword, and the
\* boost when anything matched
tenths(category, boost) ==
    IF category.phrases + category.keywords = 0 THEN 0
    ELSE 8 * category.phrases + 3 * category.keywords + boost

\* C18: the local classifier returns the category of maximum score, the first
\* declared among those that share it; when the maximum is 0 it returns
\* general with confidence 0.5 and no matched keywords
C18_MaxScoreFirstDeclared ==
    ( /\ call.fn = "classify_intent"
      /\ call.intent_service = "LocalIntentService" ) =>
        With(intent_scores(strip(lower(call.message))), LAMBDA scores :
        With([i \in DOMAIN scores |->
                  tenths(scores[i], intent_patterns[i].confidence_boost)],
             LAMBDA score :
        With(CHOOSE i \in DOMAIN score :
                 /\ \A j \in DOMAIN score : score[j] <= score[i]
                 /\ \A j \in 1..(i - 1) : score[j] < score[i], LAMBDA best :
        IF score[best] = 0
        THEN /\ call.result.value.intent = "general"
             /\ call.result.value.confidence = float(5, 10)
             /\ call.result.value.keywords_matched = << >>
        ELSE call.result.value.intent = scores[best].intent)))

\* C16: in a regular turn whose intent classification raises, the agent
\* searched first is the one the keyword rules give for the message, the
\* knowledge search runs, and the response is error_fallback only if a later
\* step raised
C16_ClassificationFailureNotSurfaced ==
    ( /\ turn # NoTurn
      /\ ~turn.is_follow_up
      /\ "classification" \in turn.raised_steps ) =>
        /\ turn.primary = simple_agent_routing_of[turn.message]
        /\ turn.searched # << >>
        /\ turn.searched[1] = turn.primary
        /\ response.answer_type = "error_fallback" =>
               "retrieval" \in turn.raised_steps
        /\ response.answer_type # "error_fallback" =>
               /\ response.intent = turn.primary
               /\ response.intent_data = [confidence |-> 50]

\* C16: the classification raises for "my internet is down", which the
\* keyword rules send to tech_support, and the answer is found there
C16_Witness ==
    /\ turn # NoTurn
    /\ "classification" \in turn.raised_steps
    /\ turn.message = "my internet is down"
    /\ turn.primary = "tech_support"
    /\ response.agent_type = "tech_support"
    /\ response.answer_type = "kb_exact"

\* C19: for a message whose tokens are those of one category's name,
\* search_agent_kb returns the first entry of that category, whatever the
\* other categories of the agent are and in whatever order they come
C19_CategoryNameFirstEntry ==
    call.fn = "search_agent_kb" =>
        \A i \in DOMAIN call.agent_kb :
            ( /\ tokenize(call.message) = tokenize(call.agent_kb[i].name)
              /\ Len(call.agent_kb[i].responses) > 0 ) =>
                call.result = Found(call.agent_kb[i].responses[1])

\* the entries of the categories from category i on, in the order seen
RECURSIVE entries_from(_, _)
entries_from(cats, i) ==
    IF i > Len(cats) THEN << >>
    ELSE cats[i].responses \o entries_from(cats, i + 1)

\* C20: when no category name of the agent matches the message,
\* search_agent_kb returns the entry with the most keywords sharing a token
\* with the message over all categories, the first seen among equal scores,
\* and no entry when every entry scores 0
C20_BestKeywordScore ==
    ( /\ call.fn = "search_agent_kb"
      /\ \A i \in DOMAIN call.agent_kb :
             ~category_name_match(call.agent_kb[i].name, call.message) ) =>
        With(entries_from(call.agent_kb, 1), LAMBDA entries :
        With(CHOOSE e \in DOMAIN entries :
                 /\ \A f \in DOMAIN entries :
                        keyword_score(entries[f], call.message)
                            <= keyword_score(entries[e], call.message)
                 /\ \A f \in 1..(e - 1) :
                        keyword_score(entries[f], call.message)
                            < keyword_score(entries[e], call.message),
             LAMBDA best :
        IF keyword_score(entries[best], call.message) = 0
        THEN call.result = NoResponse
        ELSE call.result = Found(entries[best])))

\* C20: no category name matches "new modem gateway"; two entries of equipment
\* score 2 and the first of them is returned
C20_Witness ==
    /\ call.fn = "search_agent_kb"
    /\ call.message = "new modem gateway"
    /\ Len(call.agent_kb) = 3
    /\ \A i \in DOMAIN call.agent_kb :
           ~category_name_match(call.agent_kb[i].name, call.message)
    /\ call.result.content = "Plug in the gateway"

\* the call was made with a knowledge base file that is empty or cannot be
\* loaded
unloadable(fn) ==
    /\ call.fn = fn
    /\ call.kb_file \in {"missing", "malformed", "empty"}

\* the turn of call.result searched the three agents, found nothing, and was
\* answered by the generative tier
generative_tier_reached(result) ==
    /\ ~result.raised
    /\ ~result.turn.propagated
    /\ Len(result.turn.searched) = Len(Agents)
    /\ \A a \in {Agents[i] : i \in 1..Len(Agents)} :
           /\ \E i \in 1..Len(result.turn.searched) : result.turn.searched[i] = a
           /\ ~search_agent_kb_of[result.kb][a][call.message].found
    /\ result.response.answer_type \in {"llm_generated", "kb_fallback"}

\* C21: when the knowledge base file is missing, malformed or empty,
\* semantic_search and hybrid_search return an empty list without raising, and
\* a turn of the chat service constructed from it misses in every agent search
\* and is answered by the generative tier
C21_EmptyCorpusRetrieval ==
    /\ (unloadable("semantic_search") \/ unloadable("hybrid_search")) =>
           (~call.result.raised /\ call.result.results = << >>)
    /\ unloadable("process_message") => generative_tier_reached(call.result)

\* C21, the part that holds: with the file missing, or holding no agent, the
\* chat service is constructed, every agent search of its turn misses and the
\* generative tier answers
C21_MissingFileTurn ==
    (call.fn = "process_message" /\ call.kb_file \in {"missing", "empty"}) =>
        generative_tier_reached(call.result)

\* the 4 x top_k oversample of the call
oversample == semantic_search(CorpusSKB, call.scores, call.top_k * 4).results

\* the field and the tags share an element: a tag is in the list of the field,
\* or is the value of the field
shares_element(resp, f) ==
    \E t \in 1..Len(f.v) :
        IF is_list_field(f.key)
        THEN \E k \in 1..Len(resp[f.key]) : resp[f.key][k] = f.v[t]
        ELSE resp[f.key] = f.v[t]

\* the entry passes the filter: the field is present, and equals a scalar
\* value or shares an element with a list value
passes_filter(resp, f) ==
    /\ f.key \in DOMAIN resp
    /\ IF f.list THEN shares_element(resp, f)
       ELSE ~is_list_field(f.key) /\ resp[f.key] = f.v[1]

\* the results are at most top_k results of the oversample
from_oversample(results) ==
    /\ Len(results) <= call.top_k
    /\ \A i \in 1..Len(results) :
           /\ results[i].slot \in 1..Len(oversample)
           /\ results[i].response = oversample[results[i].slot].response
           /\ results[i].semantic_score = oversample[results[i].slot].semantic_score
    /\ \A i, j \in 1..Len(results) : i # j => results[i].slot # results[j].slot

\* by non-increasing score, equal scores in the order of the oversample
ranked(results) ==
    \A i, j \in 1..Len(results) :
        i < j =>
            \/ results[i].hybrid_score > results[j].hybrid_score
            \/ /\ results[i].hybrid_score = results[j].hybrid_score
               /\ results[i].slot < results[j].slot

\* C22: hybrid_search returns at most top_k results of the 4 x top_k
\* oversample, each of which passes every filter (a scalar filter: the field
\* equals the value; a list filter: the field shares an element with the list;
\* the field absent: dropped), by non-increasing final score, equal scores in
\* the order of the oversample
C22_FilteredRankedTopK ==
    call.fn = "hybrid_search" =>
        /\ ~call.result.raised
        /\ from_oversample(call.result.results)
        /\ \A i \in 1..Len(call.result.results), n \in 1..Len(call.filters) :
               passes_filter(call.result.results[i].response, call.filters[n])
        /\ ranked(call.result.results)

\* C22, the part that holds: at most top_k results of the oversample, by
\* non-increasing final score, equal scores in the order of the oversample,
\* and no result that a scalar filter or a filter on an absent field rejects
C22_RankedTopK ==
    call.fn = "hybrid_search" =>
        /\ ~call.result.raised
        /\ from_oversample(call.result.results)
        /\ \A i \in 1..Len(call.result.results), n \in 1..Len(call.filters) :
               (~call.filters[n].list \/ is_list_field(call.filters[n].key)) =>
                   passes_filter(call.result.results[i].response, call.filters[n])
        /\ ranked(call.result.results)

\* results with equal scores are returned
C22_TiesReturned ==
    /\ call.fn = "hybrid_search"
    /\ \E i, j \in 1..Len(call.result.results) :
           /\ i # j
           /\ call.result.results[i].hybrid_score = call.result.results[j].hybrid_score

in_window(time_window_hours) ==
    {metrics[i].conversation_id :
         i \in {j \in 1..Len(metrics) : metrics[j].timestamp >= now - time_window_hours}}

\* the frustration levels recorded for the conversation in the window
window_frustration(conversation_id, time_window_hours) ==
    {metrics[i].value :
         i \in {j \in 1..Len(metrics) :
                    /\ metrics[j].timestamp >= now - time_window_hours
                    /\ metrics[j].conversation_id = conversation_id
                    /\ metrics[j].metric_type = "frustration_level"}}

\* the attempt count recorded last for the conversation in the window
window_attempt_count(conversation_id, time_window_hours) ==
    conv_data_get(recent(metrics, now, time_window_hours), conversation_id,
                  "attempt_count", 1)

\* C24: calculate_intent_resolution_rate counts the conversations with a
\* metric in the window, and counts as resolved those whose maximum
\* frustration level recorded in the window is below 5 and whose attempt
\* count is at most 3; the rate is the one divided by the other
C24_ResolvedByMaxFrustration ==
    call.fn = "calculate_intent_resolution_rate" =>
        /\ call.result.total_conversations = Cardinality(in_window(call.args))
        /\ call.result.resolved_count =
               Cardinality({c \in in_window(call.args) :
                   /\ \A f \in window_frustration(c, call.args) : f < 5
                   /\ window_attempt_count(c, call.args) <= 3})

\* C24, the part that holds: the conversations counted are those with a metric
\* in the window, and a conversation whose frustration levels in the window
\* are all below 5 is resolved exactly when its attempt count is at most 3
C24_TotalInWindow ==
    call.fn = "calculate_intent_resolution_rate" =>
        /\ call.result.total_conversations = Cardinality(in_window(call.args))
        /\ call.result.resolved_count >=
               Cardinality({c \in in_window(call.args) :
                   /\ \A f \in window_frustration(c, call.args) : f < 5
                   /\ window_attempt_count(c, call.args) <= 3})

\* the values recorded for the turns of the conversation
recorded(conversation_id, metric_type) ==
    {metrics[i].value :
         i \in {j \in 1..Len(metrics) :
                    /\ metrics[j].conversation_id = conversation_id
                    /\ metrics[j].metric_type = metric_type}}

\* the attempt count recorded for the last turn of the conversation
recorded_attempt_count(conversation_id) ==
    conv_data_get(metrics, conversation_id, "attempt_count", 1)

\* C25: get_conversation_insights predicts likely_escalation when the maximum
\* frustration recorded for the conversation is at least 7 or the attempt
\* count recorded for it is at least 4, likely_resolved when the frustration
\* is below 3 and the attempts are at most 2, and ongoing_assistance otherwise
C25_OutcomePrediction ==
    call.fn = "get_conversation_insights" =>
        call.result.outcome_prediction =
            IF \/ \E f \in recorded(call.args, "frustration_level") : f >= 7
               \/ recorded_attempt_count(call.args) >= 4
            THEN "likely_escalation"
            ELSE IF /\ \A f \in recorded(call.args, "frustration_level") : f < 3
                    /\ recorded_attempt_count(call.args) <= 2
            THEN "likely_resolved"
            ELSE "ongoing_assistance"

\* C25, the part that holds: the prediction is that of the thresholds for the
\* maximum frustration recorded and an attempt count of 1
C25_PredictionByFrustration ==
    call.fn = "get_conversation_insights" =>
        call.result.outcome_prediction =
            IF \E f \in recorded(call.args, "frustration_level") : f >= 7
            THEN "likely_escalation"
            ELSE IF \A f \in recorded(call.args, "frustration_level") : f < 3
            THEN "likely_resolved"
            ELSE "ongoing_assistance"

\* the metric of the field that the step has recorded at place k of the six
recorded_at(k, metric_type) ==
    /\ metrics'[Len(metrics) + k].conversation_id = turn'.conversation_id
    /\ metrics'[Len(metrics) + k].metric_type = metric_type

\* the step records the processing time, the follow-up flag, the frustration,
\* the attempt count and the tone of the turn
turn_values_recorded ==
    /\ Len(metrics') = Len(metrics) + 6
    /\ recorded_at(1, "processing_time")
    /\ metrics'[Len(metrics) + 1].value = response'.conversation_metrics.processing_time_ms
    /\ recorded_at(2, "is_follow_up")
    /\ metrics'[Len(metrics) + 2].value = response'.conversation_metrics.is_follow_up
    /\ recorded_at(3, "frustration_level")
    /\ metrics'[Len(metrics) + 3].value = response'.conversation_metrics.frustration_level
    /\ recorded_at(4, "attempt_count")
    /\ metrics'[Len(metrics) + 4].value = response'.conversation_metrics.attempt_count
    /\ recorded_at(5, "answer_type")
    /\ recorded_at(6, "tone_used")
    /\ metrics'[Len(metrics) + 6].value = response'.conversation_metrics.tone_used

C26_Step ==
    (turn = NoTurn /\ turn' # NoTurn) =>
        /\ turn_values_recorded
        /\ metrics'[Len(metrics) + 5].value = response'.answer_type

\* C26: every turn processed, over REST or over WebSocket, adds one metric for
\* each tracked field (processing time, follow-up flag, frustration, attempt
\* count, answer type, tone) of its conversation, with the values of the turn;
\* the answer type recorded is the answer_type of the response
C26_TurnMetricsRecorded == [][C26_Step]_vars

C26_WebSocketStep ==
    (turn = NoTurn /\ turn' # NoTurn) =>
        IF turn'.channel = "websocket"
        THEN turn_values_recorded /\ metrics'[Len(metrics) + 5].value = "unknown"
        ELSE metrics' = metrics

\* C26, the part that holds: a turn over WebSocket adds the six metrics, with
\* the values of the turn but for the answer type, recorded as unknown; a turn
\* over REST adds none
C26_WebSocketTurnRecorded == [][C26_WebSocketStep]_vars

\* the handler of the client has ended
session_ended(client_id) == session[client_id] \in {"returned", "failed"}

\* C27: when the handler of a WebSocket session has ended, for whatever
\* reason its loop was left, its heartbeat task has been cancelled, or has
\* ended, and the client is not in active_connections
C27_SessionEndCleansUp ==
    \A c \in ConvIds :
        session_ended(c) =>
            /\ heartbeat_task[c] \in {"cancelled", "finished"}
            /\ c \notin DOMAIN active_connections

\* C27, the part that holds: a handler that ends in its outer except has
\* cancelled its heartbeat task and disconnected the client, and a handler that
\* has left its loop because a send failed leaves no client registered
C27_OuterExceptCleansUp ==
    \A c \in ConvIds :
        session[c] = "failed" =>
            /\ heartbeat_task[c] \in {"cancelled", "finished"}
            /\ c \notin DOMAIN active_connections

StatesEntered == {INITIAL, PROBLEM_SOLVING, FOLLOW_UP}

\* a turn has just moved the context of its conversation from state from to
\* state to
turn_moved(from, to) ==
    /\ turn # NoTurn
    /\ turn.context_read.current_state = from
    /\ turn.context_after.current_state = to

\* C28: whatever the turns, the state of a context is INITIAL, PROBLEM_SOLVING
\* or FOLLOW_UP, never ESCALATION or RESOLVED, and no turn that finds a context
\* out of INITIAL leaves it in INITIAL
C28_StatesEntered ==
    /\ \A c \in ConvIds :
           conversation_contexts[c] # NoContext =>
               conversation_contexts[c].current_state \in StatesEntered
    /\ turn # NoTurn =>
           /\ turn.context_after.current_state \in StatesEntered
           /\ turn.context_read.current_state # INITIAL =>
                  turn.context_after.current_state # INITIAL

\* C28, a case: the third turn of a session finds the context in FOLLOW_UP,
\* after PROBLEM_SOLVING, and leaves it in FOLLOW_UP
C28_Witness ==
    /\ turn_moved(FOLLOW_UP, FOLLOW_UP)
    /\ turn.channel = "websocket"
    /\ turn.context_after.attempt_count >= 1
    /\ turn.context_after.last_solution_offered # NONE

\* C29: no turn moves a context from INITIAL directly to FOLLOW_UP, and no
\* turn moves a context from FOLLOW_UP back to PROBLEM_SOLVING
C29_ForwardOnly ==
    /\ ~turn_moved(INITIAL, FOLLOW_UP)
    /\ ~turn_moved(FOLLOW_UP, PROBLEM_SOLVING)

\* C29, the first half: some turn moves a context from INITIAL to FOLLOW_UP
C29_NoSkipToFollowUp == ~turn_moved(INITIAL, FOLLOW_UP)

\* C29, the second half: some turn moves a context from FOLLOW_UP to
\* PROBLEM_SOLVING
C29_NoReturnToProblemSolving == ~turn_moved(FOLLOW_UP, PROBLEM_SOLVING)

\* a WebSocket turn that is a follow-up and has asked the chain of its
\* conversation for a completion
follow_up_completion ==
    /\ turn # NoTurn
    /\ turn.channel = "websocket"
    /\ turn.is_follow_up
    /\ turn.llm_calls = 1

\* C30: the completion of a follow-up turn comes from a chain whose tone is the
\* one determine_tone selects for the context of the conversation at that turn,
\* also when an earlier turn of the conversation had another tone
C30_FollowUpUsesCurrentTone ==
    follow_up_completion =>
        chain_tone[turn.conversation_id] = determine_tone(turn.context_read)

\* C30, what holds: the chain of a conversation keeps the tone it was
\* constructed with, that of the context read by the turn that constructed it
C30_ChainToneFixed ==
    [][\A c \in ConvIds :
           IF chain_tone[c] # NONE
           THEN chain_tone'[c] = chain_tone[c]
           ELSE chain_tone'[c] # NONE =>
                    /\ turn'.conversation_id = c
                    /\ chain_tone'[c] = system_prompt(turn'.context_read.preferred_tone)]_vars

\* C30, a case: a follow-up completion in a conversation whose tone is no
\* longer that of its chain
C30_ToneChanged ==
    /\ follow_up_completion
    /\ chain_tone[turn.conversation_id] = "helpful_friendly"
    /\ turn.context_read.preferred_tone = "understanding_adaptive"

\* the text offers the hand-over to a human agent
offers_human_agent(text) == contains(text, "human agent")

\* the text asks the user to tell more
asks_for_detail(text) == contains(text, "tell me more")

\* a follow-up turn whose chain was constructed and whose completion was not
\* obtained: the call to the model failed, or the model is unavailable
completion_failed == turn # NoTurn /\ turn.is_follow_up /\ turn.llm_calls = 1 /\ ~turn.llm_ok

model_unavailable ==
    turn # NoTurn /\ turn.is_follow_up /\ ~turn.propagated /\ turn.llm_calls = 0

\* C31: a follow-up turn whose completion cannot be obtained is answered with
\* the text that offers a human agent when the frustration level of the
\* context is at least 6, and with the text that asks for more detail otherwise
C31_FallbackByFrustration ==
    (completion_failed \/ model_unavailable) =>
        IF turn.context_read.frustration_level >= 6
        THEN offers_human_agent(response.answer)
        ELSE asks_for_detail(response.answer)

\* C31, what holds: after a failed call the answer of create_empathetic_fallback,
\* which offers a human agent from level 6 and never asks for detail; with the
\* model unavailable the answer of create_empathetic_fallback_text, which asks
\* for detail at every level and never offers a human agent
C31_FallbackByCause ==
    /\ completion_failed =>
           /\ response.answer_type = "empathetic_fallback"
           /\ response.answer = create_empathetic_fallback(turn.context_read).answer
           /\ offers_human_agent(response.answer)
                  <=> turn.context_read.frustration_level >= 6
           /\ ~asks_for_detail(response.answer)
    /\ model_unavailable =>
           /\ response.answer_type = "follow_up_response"
           /\ response.answer = create_empathetic_fallback_text(turn.context_read)
           /\ asks_for_detail(response.answer)
           /\ ~offers_human_agent(response.answer)

\* C31, a case: the model is unavailable on a follow-up turn of a context
\* with frustration level 6 or more
C31_FrustratedUnavailable ==
    model_unavailable /\ turn.context_read.frustration_level >= 6

\* C31, a case: the call fails on a follow-up turn of a context with
\* frustration level below 6
C31_CalmFailure ==
    completion_failed /\ turn.context_read.frustration_level < 6

\* C32: with the turns of different conversations interleaved where
\* coordinator is suspended, the context of a conversation is touched by its
\* own turns only: while a turn is suspended its context is the one it read,
\* and after the turn it is the context the turn would have left running alone
C32_ContextIsolation ==
    \A c \in ConvIds :
        /\ coroutines[c].at = "handler" =>
               conversation_contexts[c] = coroutines[c].context_read
        /\ coroutines[c].at = "returned" =>
               conversation_contexts[c] = coroutines[c].alone
        /\ coroutines[c].at = "none" => conversation_contexts[c] = NoContext

\* C32, a case: the second turn of a conversation has changed its context and
\* returned while a turn of the other conversation, not its first, is
\* suspended in its handler
C32_Witness ==
    /\ coroutines["c1"].at = "returned"
    /\ coroutines["c1"].context_before # NoContext
    /\ coroutines["c1"].alone # coroutines["c1"].context_before
    /\ coroutines["c2"].at = "handler"
    /\ coroutines["c2"].context_before # NoContext
    /\ turn.conversation_id = "c1"

\* the relations between the fields of a context
context_consistent(context) ==
    /\ Len(context.resolution_attempts) <= context.attempt_count
    /\ context.current_state = INITIAL =>
           /\ context.attempt_count = 0
           /\ context.frustration_level = 0
           /\ context.last_solution_offered = NONE
    /\ context.current_state = PROBLEM_SOLVING => truthy(context.last_solution_offered)
    /\ context.frustration_level > 0 => context.attempt_count >= 1

\* C33: in every context, of a session or of a REST turn, there are at most
\* attempt_count resolution attempts; INITIAL goes with attempt_count 0,
\* frustration level 0 and no solution offered; PROBLEM_SOLVING with a solution
\* offered; a frustration level above 0 with an attempt_count of at least 1
C33_ContextConsistent ==
    /\ \A c \in ConvIds :
           conversation_contexts[c] # NoContext =>
               context_consistent(conversation_contexts[c])
    /\ turn # NoTurn =>
           /\ context_consistent(turn.context_read)
           /\ context_consistent(turn.context_after)

\* C33, a case: a context in FOLLOW_UP with a frustration level above 0 and
\* fewer resolution attempts than follow-ups
C33_Witness ==
    \E c \in ConvIds :
        /\ conversation_contexts[c] # NoContext
        /\ conversation_contexts[c].current_state = FOLLOW_UP
        /\ conversation_contexts[c].frustration_level > 0
        /\ conversation_contexts[c].attempt_count = 2
        /\ Len(conversation_contexts[c].resolution_attempts) = 1

\* the conversation_metrics of the response report the context the turn left
metrics_report_context ==
    /\ response.conversation_metrics.attempt_count = turn.context_after.attempt_count
    /\ response.conversation_metrics.frustration_level
           = turn.context_after.frustration_level
    /\ response.conversation_metrics.conversation_state
           = turn.context_after.current_state

\* C34: the attempt_count, frustration_level and conversation_state in the
\* conversation_metrics of every response of coordinator, the error fallback
\* included, are those of the context of the conversation at the end of the turn
C34_MetricsReportContext == turn # NoTurn => metrics_report_context

\* C34, what holds: the response of a turn that does not end in the error
\* fallback reports the context, and the error fallback reports attempt_count
\* 0, frustration level 0 and the state "error" whatever the context holds
C34_MetricsReportContextUnlessError ==
    turn # NoTurn =>
        IF response.answer_type = "error_fallback"
        THEN /\ response.conversation_metrics.attempt_count = 0
             /\ response.conversation_metrics.frustration_level = 0
             /\ response.conversation_metrics.conversation_state = "error"
        ELSE metrics_report_context

\* C34, a case: an error fallback for a conversation whose context counts an
\* attempt and a frustration level above 0
C34_ErrorAfterFollowUp ==
    /\ turn # NoTurn
    /\ response.answer_type = "error_fallback"
    /\ turn.context_after.attempt_count >= 1
    /\ turn.context_after.frustration_level > 0

\* what get_or_create_context leaves for a conversation whose context is context
context_found(context, conversation_id) ==
    IF context = NoContext
    THEN ConversationContext(conversation_id, conversation_id)
    ELSE context

\* C35: a turn that ends in the error fallback leaves the context of its
\* conversation as it found it: every field as before the turn, or as
\* get_or_create_context constructs it when the service had no context for the
\* conversation
C35_ErrorLeavesContext ==
    [][(turn = NoTurn /\ turn' # NoTurn /\ response'.answer_type = "error_fallback") =>
           /\ turn'.context_after = turn'.context_read
           /\ turn'.context_read =
                  context_found(IF turn'.channel = "websocket"
                                THEN conversation_contexts[turn'.conversation_id]
                                ELSE NoContext,
                                turn'.conversation_id)
           /\ turn'.channel = "websocket" =>
                  conversation_contexts'[turn'.conversation_id] = turn'.context_read]_vars

\* C35, a case: the error fallback in a session whose context is in FOLLOW_UP
\* with a solution offered and a frustration level above 0
C35_Witness ==
    /\ turn # NoTurn
    /\ response.answer_type = "error_fallback"
    /\ turn.channel = "websocket"
    /\ turn.context_after.current_state = FOLLOW_UP
    /\ turn.context_after.attempt_count = 1
    /\ turn.context_after.frustration_level > 0
    /\ turn.context_after.last_solution_offered # NONE

\* C36: search_agent_kb finds no entry for a message without a token (empty,
\* of whitespace only or of punctuation only), whatever the corpus of the agent
C36_NoTokensNoEntry ==
    (call.fn = "search_agent_kb" /\ tokenize(call.message) = {}) =>
        ~call.result.found

\* C36, what holds: for a message without a token the result is the first
\* response of the first category that has one, and nothing for a corpus
\* without such a category
C36_NoTokensFirstEntry ==
    (call.fn = "search_agent_kb" /\ tokenize(call.message) = {}) =>
        LET with_responses ==
                {i \in DOMAIN call.agent_kb : call.agent_kb[i].responses # << >>}
        IN  IF with_responses = {}
            THEN ~call.result.found
            ELSE call.result =
                     Found(call.agent_kb[CHOOSE i \in with_responses :
                               \A j \in with_responses : i <= j].responses[1])

\* C36, a case: the search of a corpus with entries for a message of
\* punctuation only
C36_PunctuationOnly ==
    /\ call.fn = "search_agent_kb"
    /\ call.message = "?!"
    /\ call.agent_kb # << >>
    /\ call.result.found

\* the socket registered for the client, NONE when there is none
registered(connections, client_id) ==
    IF client_id \in DOMAIN connections THEN connections[client_id] ELSE NONE

\* C37: once a newer connection under the client ID is registered, no step on
\* an older socket (a send on it that ends, the end of its handler) takes the
\* newer socket out of active_connections; only a new connection replaces it
C37_OlderSessionKeepsNewer ==
    [][\A c \in {client_of(w) : w \in Sockets} :
           ( /\ registered(active_connections, c) # NONE
             /\ call'.websocket # registered(active_connections, c)
             /\ call'.fn # "connect" ) =>
               registered(active_connections', c) = registered(active_connections, c)]_vars

\* C37, what holds: the handler of an older socket that leaves its loop by a
\* break, and every send that succeeds, leave active_connections as it is
C37_BreakKeepsConnections ==
    [][call'.fn \in {"not_open", "disconnect", "pong", "invalid", "sent", "loop_exit"} =>
           active_connections' = active_connections]_vars

\* C37, a case: a send on the older socket fails after the newer socket has
\* been registered, and the client ID is registered no more
C37_NewerRemoved ==
    /\ call.fn = "send_failed"
    /\ call.websocket = "w1"
    /\ session["w2"] # "none"
    /\ session["w2"] \notin {"returned", "failed"}
    /\ "c1" \notin DOMAIN active_connections

\* the heartbeat tasks that go on sending pings to the client
pinging(client_id) ==
    {w \in Sockets : /\ client_of(w) = client_id
                     /\ heartbeat_task[w] \in {"running", "sending"}}

\* C38: at most one heartbeat task sends pings for a client ID, whatever the
\* connects, disconnects and reconnects under it
C38_OneHeartbeatTask ==
    \A c \in {client_of(w) : w \in Sockets} : Cardinality(pinging(c)) <= 1

\* C38, a case: the heartbeat tasks of two connections have each a ping in
\* flight, both on the socket of the newer connection
C38_TwoPingsInFlight ==
    \E s1, s2 \in sends :
        /\ s1.task = "heartbeat" /\ s2.task = "heartbeat"
        /\ s1.by # s2.by
        /\ s1.websocket = s2.websocket

\* the requests of the IP admitted at one of the times, from start on and
\* less than WINDOW_SIZE seconds later; a window with the most requests starts
\* at one of them
admitted_in_window(times, start) ==
    Cardinality({i \in 1..Len(times) : times[i] >= start /\ times[i] < start + WINDOW_SIZE})

\* the requests of the IP admitted less than WINDOW_SIZE seconds before time,
\* the last of times left out
admitted_before(times, time) ==
    Cardinality({i \in 1..(Len(times) - 1) : time - times[i] < WINDOW_SIZE})

\* C39: a request is admitted exactly when fewer than RATE_LIMIT_PER_MINUTE
\* requests of its IP were admitted in the 60 seconds before it; no IP has more
\* than RATE_LIMIT_PER_MINUTE requests admitted within 60 seconds; a rejected
\* request is not recorded, so request_counts holds the admitted requests of
\* the last 60 seconds and no other
C39_RateLimit ==
    /\ \A ip \in ClientIPs :
           \A i \in 1..Len(call.admitted[ip]) :
               admitted_in_window(call.admitted[ip], call.admitted[ip][i])
                   <= RATE_LIMIT_PER_MINUTE
    /\ call.fn = "rate_limit_middleware" =>
           /\ call.status = 200 <=>
                  admitted_before(
                      IF call.status = 200 THEN call.admitted[call.client_ip]
                      ELSE Append(call.admitted[call.client_ip], now),
                      now) < RATE_LIMIT_PER_MINUTE
           /\ request_counts[call.client_ip] = clean_up(call.admitted[call.client_ip], now)

\* C39, a case: an IP that had a request rejected has a request admitted once
\* the oldest of its admitted requests is 60 seconds old
C39_Witness ==
    /\ call.fn = "rate_limit_middleware"
    /\ call.status = 200
    /\ call.rejected[call.client_ip] >= 1
    /\ Len(call.admitted[call.client_ip]) = RATE_LIMIT_PER_MINUTE + 1
    /\ now - call.admitted[call.client_ip][1] = WINDOW_SIZE

\* C40: hybrid_search returns no entry of the knowledge base twice in one
\* list of results, also when the corpus has fewer than 4 * top_k entries
C40_NoDuplicateEntry ==
    (call.fn = "hybrid_search" /\ ~call.result.raised) =>
        \A i, j \in 1..Len(call.result.results) :
            i # j => call.result.results[i].response # call.result.results[j].response

\* C40, what holds: the results are distinct when the corpus has at least
\* 4 * top_k entries, and any entry returned twice is the last of the corpus
C40_DuplicateIsLastEntry ==
    (call.fn = "hybrid_search" /\ ~call.result.raised) =>
        \A i, j \in 1..Len(call.result.results) :
            (i # j /\ call.result.results[i].response = call.result.results[j].response) =>
                /\ Len(CorpusSKB.responses) < 4 * call.top_k
                /\ call.result.results[i].response
                       = CorpusSKB.responses[Len(CorpusSKB.responses)]

\* C40, a case: a search of the six entries with top_k = 2 that returns two
\* results
C40_SmallCorpus ==
    /\ call.fn = "hybrid_search"
    /\ ~call.result.raised
    /\ Len(CorpusSKB.responses) < 4 * call.top_k
    /\ Len(call.result.results) = 2

====
